---- MODULE Spec2Model ----
(***************************************************************************)
(* Resilience layer of the AXON backend: circuit breaker                   *)
(* (backend/circuit-breaker.js), token-bucket rate limiter, bounded retry  *)
(* and model fallback (backend/llm-service.js), provider error mapping     *)
(* (error-handler.js) and the response cache (backend/cache-service.js);   *)
(* then the orchestration strategies (backend/orchestration-service.js)    *)
(* and the consensus check (backend/unified-llm-core.js); then strategy    *)
(* selection, the client gateway (backend/websocket-service.js) and the    *)
(* memory layers with their persistence (unnamed/part_004).                *)
(*                                                                         *)
(* JavaScript runs handlers to their next await without interleaving, so   *)
(* every action below is one such run-to-await segment.  Date.now() is the *)
(* variable now (milliseconds), advanced only by the Tick actions.         *)
(***************************************************************************)
EXTENDS Integers, Sequences, FiniteSets, TLC

VARIABLES
  now,        \* Date.now(), in ms
  cb,         \* one CircuitBreaker instance: state, failures, nextAttempt, fallbackFunction
  inflight,   \* wrapped functions started by cb.execute and not yet settled
  probes,     \* history: wrapped functions started since cb last became HALF_OPEN
  consec,     \* history: failed completions since the last successful one (or reset)
  last,       \* history: the operation performed by the last step and what it saw
  rl,         \* one RateLimiter instance: limit, tokens, lastRefill, requests
  admitted,   \* history: the times of the calls checkLimit let through
  cache,      \* CacheService: enabled flag, Map keys in insertion order, entries
  lastSet,    \* history: per cache key, the value and time of the latest set
  evicted,    \* history: cache keys removed by evictLRU since their latest set
  breakers,   \* CircuitBreakerManager.breakers: the breaker of each model
  gr,         \* the generateResponse call in progress: position, locals, history
  grCount,    \* history: generateResponse calls started
  par,        \* parallelStrategy: two runs of the service side by side
  seq,        \* sequentialStrategy: the service and the orchestration in progress
  pipe,       \* pipelineStrategy: the service and the orchestration in progress
  comp,       \* competitiveStrategy: the service and the orchestration in progress
  seek,       \* UnifiedOrchestrator.seekConsensus: responses, result, shared facts
  cons,       \* UnifiedOrchestrator consensus strategy: the iteration in progress
  strat,      \* strategy selection: the requests handled by the two orchestrators
  ws,         \* WebSocketService: clients, conversations, envelopes, events sent
  cmem,       \* one ConversationMemory and the history of its avoidedTopics
  meta,       \* one MetaMemory: goals, progress, shared understanding
  persist,    \* EnhancedMemorySystem: memories in use, files written, memories loaded
  adm         \* generateResponse with tools: admissions and provider calls

vars == <<now, cb, inflight, probes, consec, last, rl, admitted, cache, lastSet, evicted,
          breakers, gr, grCount, par, seq, pipe, comp, seek, cons,
          strat, ws, cmem, meta, persist, adm>>
sessVars == <<strat, ws, cmem, meta, persist, adm>>
orchVars == <<par, seq, pipe, comp, seek, cons, sessVars>>
grVars == <<breakers, gr, grCount>>
cbVars == <<cb, inflight, probes, consec>>
rlVars == <<rl, admitted>>
cacheVars == <<cache, lastSet, evicted>>
notCB == <<rlVars, cacheVars, grVars, orchVars>>
notRL == <<cbVars, cacheVars, grVars, orchVars>>
notCache == <<cbVars, rlVars, grVars, orchVars>>

----------------------------------------------------------------------------
(* Bounds of the model *)

MaxTicks == 7          \* clock steps explored
MaxInflight == 2       \* concurrent wrapped calls through one breaker
TickMs == 10000        \* clock granularity of the breaker specification

MaxRLTicks == 4        \* clock steps explored by the rate limiter specification
MaxRLCalls == 12       \* checkLimit calls explored
RLTickMs == 60         \* clock granularity of the rate limiter specification

MaxCacheTicks == 3     \* clock steps explored by the cache specification
CacheTickMs == 1800000 \* clock granularity of the cache specification
CacheMaxSize == 2      \* options.maxSize given to the CacheService constructor

MaxGRTicks == 4        \* clock steps explored by the generateResponse specification
MaxGRRequests == 4     \* generateResponse calls explored

(* Program constants *)

MaxRetries == 3        \* retryWithBackoff(fn, maxRetries = 3)
NoStatus == 0          \* an error object without a status property (APIError sets statusCode)
CacheTtl == 3600000    \* CacheService constructor: ttl = options.ttl || 3600000
OpenAIRpm == 500       \* rateLimiters.openai = new RateLimiter(500)
OtherRpm == 1000       \* rateLimiters.anthropic / google = new RateLimiter(1000)
BurstSize == 10        \* RateLimiter constructor: burstSize = 10
WindowMs == 60000      \* checkLimit: requests kept for 60000 ms; refillRate = limit / 60000

FailureThreshold == 3  \* generateResponse: getBreaker(model, {failureThreshold: 3, ...})
ResetTimeout == 30000  \* generateResponse: getBreaker(model, {resetTimeout: 30000, ...})

NoTime == -1           \* null timestamp (Date.now() < null is false, as now < -1 is)
NoLimiter == [limit |-> 0, tokens |-> 0, lastRefill |-> 0, requests |-> <<>>]
NoBreaker == [state |-> "CLOSED", failures |-> 0, nextAttempt |-> -1, fallback |-> FALSE]
NoOp == [op |-> "none", pre |-> "none", inTimeout |-> FALSE, outcome |-> "none"]
States == {"CLOSED", "OPEN", "HALF_OPEN"}   \* this.STATES
Null == "null"         \* JavaScript null

\* the parts of the state a specification does not use
GRIdle ==
  /\ breakers = <<>>
  /\ gr = [pc |-> "idle", calls |-> 0]
  /\ grCount = 0
CacheIdle ==
  /\ cache = [enabled |-> FALSE, keys |-> <<>>, ent |-> <<>>]
  /\ lastSet = <<>>
  /\ evicted = {}
SessIdle ==
  /\ strat = <<>> /\ ws = <<>> /\ cmem = <<>>
  /\ meta = <<>> /\ persist = <<>> /\ adm = <<>>
OrchIdle ==
  /\ par = <<>> /\ seq = <<>> /\ pipe = <<>>
  /\ comp = <<>> /\ seek = <<>> /\ cons = <<>>
  /\ SessIdle
\* the state of the specifications of the resilience layer, unused by the
\* specifications of the orchestration strategies
ResilienceIdle ==
  /\ cb = NoBreaker /\ inflight = 0 /\ probes = 0 /\ consec = 0
  /\ rl = NoLimiter /\ admitted = <<>>
  /\ last = NoOp
  /\ CacheIdle /\ GRIdle
  /\ SessIdle

----------------------------------------------------------------------------
(* CircuitBreaker, backend/circuit-breaker.js *)

\* constructor: initial state CLOSED, no failures, nextAttempt null
CBNew(hasFallback) ==
  [state |-> "CLOSED", failures |-> 0, nextAttempt |-> NoTime, fallback |-> hasFallback]

\* a breaker that lets calls through as soon as it has a failure-free instant
CBRefusesEarlyProbe(b, t) == b.state = "OPEN" /\ t + ResetTimeout < b.nextAttempt

\* execute, lines 30-31: the call is refused while OPEN and inside the timeout
CBRefuses(b, t) == b.state = "OPEN" /\ t < b.nextAttempt

\* execute, lines 30-40: state seen by an admitted call
CBEnter(b, t) ==
  IF b.state = "OPEN" /\ ~CBRefuses(b, t) THEN [b EXCEPT !.state = "HALF_OPEN"] ELSE b

\* trip
CBTrip(b, t) == [b EXCEPT !.state = "OPEN", !.nextAttempt = t + ResetTimeout]

\* an onSuccess that forgets to clear the failure count
CBOnSuccessKeepsCount(b) ==
  [b EXCEPT !.state = IF b.state = "HALF_OPEN" THEN "CLOSED" ELSE b.state]

\* onSuccess
CBOnSuccess(b) ==
  [b EXCEPT !.failures = 0,
            !.state = IF b.state = "HALF_OPEN" THEN "CLOSED" ELSE b.state]

\* onFailure
CBOnFailure(b, t) ==
  LET b1 == [b EXCEPT !.failures = b.failures + 1]
  IN  IF b1.failures >= FailureThreshold THEN CBTrip(b1, t) ELSE b1

\* reset
CBReset(b) == [b EXCEPT !.state = "CLOSED", !.failures = 0, !.nextAttempt = NoTime]

----------------------------------------------------------------------------
(* Specification of one breaker driven by arbitrary callers *)

CBInit ==
  /\ now = 0
  /\ \E f \in BOOLEAN : cb = CBNew(f)
  /\ inflight = 0
  /\ probes = 0
  /\ consec = 0
  /\ last = NoOp
  /\ rl = NoLimiter /\ admitted = <<>>
  /\ CacheIdle /\ GRIdle /\ OrchIdle

\* time passes
CBTick ==
  /\ now < MaxTicks * TickMs
  /\ now' = now + TickMs
  /\ last' = [op |-> "tick", pre |-> cb.state, inTimeout |-> FALSE, outcome |-> "none"]
  /\ UNCHANGED <<cb, inflight, probes, consec, notCB>>

\* execute(fn, ...args) up to its first await
CBExecute ==
  IF CBRefuses(cb, now)
  THEN /\ last' = [op |-> "execute", pre |-> cb.state,
                   inTimeout |-> (cb.state = "OPEN" /\ now < cb.nextAttempt),
                   outcome |-> IF cb.fallback THEN "fallback" ELSE "circuit_open"]
       /\ UNCHANGED <<now, cb, inflight, probes, consec, notCB>>
  ELSE /\ inflight < MaxInflight
       /\ cb' = CBEnter(cb, now)
       /\ inflight' = inflight + 1
       /\ probes' = IF cb'.state = "HALF_OPEN"
                    THEN (IF cb.state = "HALF_OPEN" THEN probes + 1 ELSE 1)
                    ELSE 0
       /\ last' = [op |-> "execute", pre |-> cb.state,
                   inTimeout |-> (cb.state = "OPEN" /\ now < cb.nextAttempt),
                   outcome |-> "started"]
       /\ UNCHANGED <<now, consec, notCB>>

\* the wrapped function of an admitted call resolves: onSuccess
CBSucceed ==
  /\ inflight > 0
  /\ inflight' = inflight - 1
  /\ cb' = CBOnSuccess(cb)
  /\ consec' = 0
  /\ probes' = IF cb'.state = "HALF_OPEN" THEN probes ELSE 0
  /\ last' = [op |-> "success", pre |-> cb.state, inTimeout |-> FALSE, outcome |-> "result"]
  /\ UNCHANGED <<now, notCB>>

\* the wrapped function of an admitted call rejects: onFailure
CBFail ==
  /\ inflight > 0
  /\ inflight' = inflight - 1
  /\ cb' = CBOnFailure(cb, now)
  /\ consec' = consec + 1
  /\ probes' = IF cb'.state = "HALF_OPEN" THEN probes ELSE 0
  /\ last' = [op |-> "failure", pre |-> cb.state, inTimeout |-> FALSE, outcome |-> "error"]
  /\ UNCHANGED <<now, notCB>>

\* reset()
CBManualReset ==
  /\ cb' = CBReset(cb)
  /\ consec' = 0
  /\ probes' = 0
  /\ last' = [op |-> "reset", pre |-> cb.state, inTimeout |-> FALSE, outcome |-> "none"]
  /\ UNCHANGED <<now, inflight, notCB>>

CBNext == CBTick \/ CBExecute \/ CBSucceed \/ CBFail \/ CBManualReset

SpecCB == CBInit /\ [][CBNext]_vars

CBTypeOK ==
  /\ cb.state \in States
  /\ cb.failures \in Nat
  /\ inflight \in 0..MaxInflight
  /\ cb.state = "OPEN" => cb.nextAttempt # NoTime

----------------------------------------------------------------------------
(* Claims about the circuit breaker, checked under SpecCB *)

\* C1: an execute call made while the breaker is OPEN and now < nextAttempt is
\* refused (circuit-open error, or the registered fallback's result) and the
\* wrapped function is not started, whatever calls came before.
C1_OpenRefusesWithoutInvoking ==
  (last.op = "execute" /\ last.pre = "OPEN" /\ last.inTimeout)
    => last.outcome \in {"circuit_open", "fallback"}

\* C1 witness: after failureThreshold consecutive failures a call was refused
\* with the circuit-open error.
C1_Witness ==
  /\ last.op = "execute" /\ last.pre = "OPEN" /\ last.inTimeout
  /\ last.outcome = "circuit_open"
  /\ consec >= FailureThreshold

\* C2: while the breaker is HALF_OPEN at most one wrapped function has been
\* started since it left OPEN (exactly one probe before the next transition).
C2_SingleProbe == cb.state = "HALF_OPEN" => probes <= 1

\* C3: a failure of a call that completes while the breaker is HALF_OPEN puts
\* the breaker back to OPEN with nextAttempt = now + resetTimeout.
C3_HalfOpenFailureReopens ==
  (last.op = "failure" /\ last.pre = "HALF_OPEN")
    => (cb.state = "OPEN" /\ cb.nextAttempt = now + ResetTimeout)

\* C4: a CLOSED breaker opens exactly when the number of consecutive failures
\* reaches failureThreshold (arming nextAttempt = now + resetTimeout), stays
\* CLOSED below it, and a success clears the consecutive-failure count, which
\* the breaker's failures field tracks.
C4_ClosedTripsAtThreshold ==
  /\ (last.op = "failure" /\ last.pre = "CLOSED")
       => /\ (cb.state = "OPEN") <=> (consec >= FailureThreshold)
          /\ cb.state = "OPEN" => cb.nextAttempt = now + ResetTimeout
          /\ cb.state # "OPEN" => cb.state = "CLOSED"
  /\ cb.state = "CLOSED" => consec < FailureThreshold
  /\ last.op = "success" => cb.failures = 0
  /\ cb.failures = consec

\* C4 witness: the third consecutive failure of a CLOSED breaker opened it.
C4_Witness ==
  /\ last.op = "failure" /\ last.pre = "CLOSED"
  /\ cb.state = "OPEN" /\ consec = FailureThreshold

----------------------------------------------------------------------------
(* RateLimiter, backend/llm-service.js.  tokens is a JavaScript double; the  *)
(* model keeps it exactly, as the integer tokens * 60000, so that the refill *)
(* timePassed * (limit / 60000) is timePassed * limit.                       *)

Min(a, b) == IF a <= b THEN a ELSE b

OneToken == WindowMs     \* the value 1 of this.tokens in the model's unit

\* constructor
RLNew(requestsPerMinute, t) ==
  [limit |-> requestsPerMinute, tokens |-> BurstSize * OneToken,
   lastRefill |-> t, requests |-> <<>>]

\* checkLimit, lines 56-59: the bucket after the refill
RLRefill(r, t) == Min(BurstSize * OneToken, r.tokens + (t - r.lastRefill) * r.limit)

\* checkLimit, line 62: requests of the last minute
RLRecent(r, t) == SelectSeq(r.requests, LAMBDA x : t - x < WindowMs)

\* checkLimit: "token" (admitted, one token taken), "window" (admitted by the
\* per-minute count, no token taken) or "throw"
RLVerdict(r, t) ==
  IF RLRefill(r, t) >= OneToken THEN "token"
  ELSE IF Len(RLRecent(r, t)) >= r.limit THEN "throw"
  ELSE "window"

\* checkLimit: the limiter after the call
RLCheckLimit(r, t) ==
  LET v == RLVerdict(r, t)
  IN  [r EXCEPT !.tokens = IF v = "token" THEN RLRefill(r, t) - OneToken ELSE RLRefill(r, t),
                !.lastRefill = t,
                !.requests = IF v = "throw" THEN RLRecent(r, t)
                             ELSE Append(RLRecent(r, t), t)]

(* Specification of one limiter driven by arbitrary callers *)

RLInit ==
  /\ now = 0
  /\ \E rpm \in {OpenAIRpm, OtherRpm} : rl = RLNew(rpm, 0)
  /\ admitted = <<>>
  /\ last = [op |-> "none", verdict |-> "none", tokens |-> 0]
  /\ cb = NoBreaker /\ inflight = 0 /\ probes = 0 /\ consec = 0
  /\ CacheIdle /\ GRIdle /\ OrchIdle

RLTick ==
  /\ now < MaxRLTicks * RLTickMs
  /\ now' = now + RLTickMs
  /\ last' = [op |-> "tick", verdict |-> "none", tokens |-> 0]
  /\ UNCHANGED <<rlVars, notRL>>

\* checkLimit()
RLCall ==
  /\ Len(admitted) < MaxRLCalls
  /\ rl' = RLCheckLimit(rl, now)
  /\ admitted' = IF RLVerdict(rl, now) = "throw" THEN admitted ELSE Append(admitted, now)
  /\ last' = [op |-> "checkLimit", verdict |-> RLVerdict(rl, now), tokens |-> RLRefill(rl, now)]
  /\ UNCHANGED <<now, notRL>>

RLNext == RLTick \/ RLCall

SpecRL == RLInit /\ [][RLNext]_vars

(* Claims about the rate limiter, checked under SpecRL *)

\* C7: checkLimit admits a call only if the refilled bucket holds at least one
\* token, which the call consumes; with less than one token the call is
\* rejected.
C7_AdmitsOnlyWithToken ==
  last.op = "checkLimit"
    => /\ (last.verdict # "throw") <=> (last.tokens >= OneToken)
       /\ last.verdict # "throw" => rl.tokens = last.tokens - OneToken

\* C8: the calls admitted in any time window of length t number at most
\* C + r * t (C = burstSize, r = limit / 60000 per ms).
C8_WindowBound ==
  \A i, j \in DOMAIN admitted :
    i <= j => (j - i + 1) * OneToken
                <= BurstSize * OneToken + rl.limit * (admitted[j] - admitted[i])

----------------------------------------------------------------------------
(* CacheService, backend/cache-service.js *)

\* requests offered to the cache: three distinct fingerprints, one of them in
\* a second variant that differs only in fields generateKey leaves out
CacheMsg(content, name) == <<[role |-> "user", content |-> content, name |-> name]>>
CacheParams(temp, penalty) ==
  [temperature |-> temp, topP |-> "0.9", maxTokens |-> 1000, repetitionPenalty |-> penalty]
CacheRequests ==
  { [model |-> q[1], messages |-> CacheMsg("hello", q[3]), parameters |-> CacheParams(q[2], q[4])] :
      q \in {<<"gpt-4o", "0.2", "alice", "1.0">>, <<"gpt-4o", "0.2", "bob", "1.2">>,
             <<"gpt-4o", "0.7", "alice", "1.0">>, <<"gpt-4.1-latest", "0.7", "alice", "1.0">>} }
CacheResponses == {"r1", "r2"}

\* generateKey: the SHA-256 of the JSON text of {model, messages: [{role,
\* content}], parameters: {temperature, topP, maxTokens}}; the model keeps the
\* hashed data itself (the digest is taken to be collision free)
GenerateKey(req) ==
  << req.model,
     [i \in DOMAIN req.messages |->
        [role |-> req.messages[i].role, content |-> req.messages[i].content]],
     [temperature |-> req.parameters.temperature,
      topP |-> req.parameters.topP,
      maxTokens |-> req.parameters.maxTokens] >>

CacheKeys == { GenerateKey(r) : r \in CacheRequests }

NoEntry == [response |-> Null, timestamp |-> NoTime, lastAccess |-> NoTime]
NoSet == [value |-> Null, time |-> NoTime]

\* constructor
CacheNew(enabled) ==
  [enabled |-> enabled, keys |-> <<>>, ent |-> [k \in CacheKeys |-> NoEntry]]

\* Map.has / Map.delete / Map.set (a Map iterates in insertion order and
\* setting an existing key keeps its position)
CacheHas(c, k) == \E i \in DOMAIN c.keys : c.keys[i] = k
CacheDelete(c, k) ==
  [c EXCEPT !.keys = SelectSeq(c.keys, LAMBDA x : x # k), !.ent[k] = NoEntry]
CachePut(c, k, e) ==
  [c EXCEPT !.keys = IF CacheHas(c, k) THEN c.keys ELSE Append(c.keys, k), !.ent[k] = e]

\* an expiry test that already drops an entry of age exactly ttl
CacheExpiredAtTtl(e, t) == t - e.timestamp >= CacheTtl

\* get line 43, cleanup line 98: the entry is older than ttl
CacheExpired(e, t) == t - e.timestamp > CacheTtl

\* get: the value returned
CacheGetResult(c, req, t) ==
  LET k == GenerateKey(req)
  IN  IF ~c.enabled THEN Null
      ELSE IF CacheHas(c, k) /\ ~CacheExpired(c.ent[k], t) THEN c.ent[k].response
      ELSE Null

\* get: the cache afterwards (expired entry deleted, or lastAccess updated)
CacheGet(c, req, t) ==
  LET k == GenerateKey(req)
  IN  IF ~c.enabled \/ ~CacheHas(c, k) THEN c
      ELSE IF CacheExpired(c.ent[k], t) THEN CacheDelete(c, k)
      ELSE [c EXCEPT !.ent[k].lastAccess = t]

\* evictLRU, lines 77-85: index of the entry chosen (0 for none), scanning in
\* insertion order from position i with the running minimum oldestTime
RECURSIVE EvictScan(_, _, _, _)
EvictScan(c, i, oldestIdx, oldestTime) ==
  IF i > Len(c.keys) THEN oldestIdx
  ELSE IF c.ent[c.keys[i]].lastAccess < oldestTime
       THEN EvictScan(c, i + 1, i, c.ent[c.keys[i]].lastAccess)
       ELSE EvictScan(c, i + 1, oldestIdx, oldestTime)

\* evictLRU
EvictLRU(c, t) ==
  LET i == EvictScan(c, 1, 0, t)
  IN  IF i = 0 THEN c ELSE CacheDelete(c, c.keys[i])

\* set
CacheSet(c, req, response, t) ==
  IF ~c.enabled THEN c
  ELSE LET c1 == IF Len(c.keys) >= CacheMaxSize THEN EvictLRU(c, t) ELSE c
       IN  CachePut(c1, GenerateKey(req),
                    [response |-> response, timestamp |-> t, lastAccess |-> t])

\* cleanup
CacheCleanup(c, t) ==
  [c EXCEPT !.keys = SelectSeq(c.keys, LAMBDA k : ~CacheExpired(c.ent[k], t)),
            !.ent = [k \in CacheKeys |->
                       IF CacheHas(c, k) /\ CacheExpired(c.ent[k], t) THEN NoEntry ELSE c.ent[k]]]

(* Specification of the cache driven by arbitrary callers *)

CacheInit ==
  /\ now = 0
  /\ \E e \in BOOLEAN : cache = CacheNew(e)
  /\ lastSet = [k \in CacheKeys |-> NoSet]
  /\ evicted = {}
  /\ last = [op |-> "none", key |-> <<>>, result |-> Null]
  /\ cb = NoBreaker /\ inflight = 0 /\ probes = 0 /\ consec = 0
  /\ rl = NoLimiter /\ admitted = <<>>
  /\ GRIdle /\ OrchIdle

CacheTick ==
  /\ now < MaxCacheTicks * CacheTickMs
  /\ now' = now + CacheTickMs
  /\ last' = [op |-> "tick", key |-> <<>>, result |-> Null]
  /\ UNCHANGED <<cacheVars, notCache>>

\* get(model, messages, parameters)
CacheGetOp ==
  \E req \in CacheRequests :
    /\ cache' = CacheGet(cache, req, now)
    /\ last' = [op |-> "get", key |-> GenerateKey(req), result |-> CacheGetResult(cache, req, now)]
    /\ UNCHANGED <<now, lastSet, evicted, notCache>>

\* set(model, messages, parameters, response)
CacheSetOp ==
  \E req \in CacheRequests, response \in CacheResponses :
    LET k == GenerateKey(req)
        gone == { x \in CacheKeys : CacheHas(cache, x) /\ ~CacheHas(cache', x) }
    IN  /\ cache' = CacheSet(cache, req, response, now)
        /\ lastSet' = IF cache.enabled
                       THEN [lastSet EXCEPT ![k] = [value |-> response, time |-> now]]
                       ELSE lastSet
        /\ evicted' = IF cache.enabled THEN (evicted \cup gone) \ {k} ELSE evicted
        /\ last' = [op |-> "set", key |-> k, result |-> Null]
        /\ UNCHANGED <<now, notCache>>

\* cleanup(), run by the 5-minute interval timer
CacheCleanupOp ==
  /\ cache' = CacheCleanup(cache, now)
  /\ last' = [op |-> "cleanup", key |-> <<>>, result |-> Null]
  /\ UNCHANGED <<now, lastSet, evicted, notCache>>

CacheNext == CacheTick \/ CacheGetOp \/ CacheSetOp \/ CacheCleanupOp

SpecCache == CacheInit /\ [][CacheNext]_vars

(* Claims about the cache, checked under SpecCache *)

\* C10: with caching enabled, after any sequence of set, get and cleanup
\* operations a get returns the value of the latest set made for the same
\* (model, messages, {temperature, topP, maxTokens}) if and only if that set is
\* at most ttl old and its entry has not been evicted; otherwise it misses.
C10_GetReturnsLatestSet ==
  (last.op = "get" /\ cache.enabled)
    => LET s == lastSet[last.key]
           live == s # NoSet /\ now - s.time <= CacheTtl /\ last.key \notin evicted
       IN  last.result = IF live THEN s.value ELSE Null

\* C10 witness: a hit on an entry of age exactly ttl, after another entry was
\* evicted.
C10_Witness ==
  /\ last.op = "get" /\ cache.enabled
  /\ last.result # Null
  /\ now - lastSet[last.key].time = CacheTtl
  /\ evicted # {}

----------------------------------------------------------------------------
(* Provider error mapping, error-handler.js *)

\* an error thrown by a provider client: the OpenAI and Anthropic SDKs put the
\* HTTP status in error.status, axios (Google) in error.response.status
RawError(provider, http) ==
  [status |-> IF provider = "google" THEN NoStatus ELSE http,
   responseStatus |-> IF provider = "google" THEN http ELSE NoStatus,
   code |-> "none", type |-> "none"]

\* APIError and its subclasses: message, statusCode, code; no status property
APIError(name, statusCode) == [name |-> name, statusCode |-> statusCode, status |-> NoStatus]

\* providerErrorMappers / mapProviderError
MapProviderError(provider, e) ==
  CASE provider = "openai" ->
         IF e.status = 429 THEN APIError("RateLimitError", 429)
         ELSE IF e.status = 401 THEN APIError("AuthenticationError", 401)
         ELSE IF e.code = "context_length_exceeded" THEN APIError("ContextWindowExceededError", 400)
         ELSE APIError("ProviderError", 502)
    [] provider = "anthropic" ->
         IF e.status = 429 THEN APIError("RateLimitError", 429)
         ELSE IF e.status = 401 THEN APIError("AuthenticationError", 401)
         ELSE IF e.type = "invalid_request_error" THEN APIError("ValidationError", 400)
         ELSE APIError("ProviderError", 502)
    [] provider = "google" ->
         IF e.responseStatus = 429 THEN APIError("RateLimitError", 429)
         ELSE IF e.responseStatus \in {401, 403} THEN APIError("AuthenticationError", 401)
         ELSE APIError("ProviderError", 502)
    [] OTHER -> APIError("ProviderError", 502)

----------------------------------------------------------------------------
(* LLMService, backend/llm-service.js *)

OpenAIModels ==
  {"gpt-4o", "gpt-4.5-research-preview", "gpt-4.1-latest", "o1-preview", "o1-mini",
   "o3-pro", "o3-pro-deep-research", "o4-mini-deep-research"}
AnthropicModels ==
  {"claude-3-opus-20240229", "claude-3-sonnet-20240229", "claude-3-haiku-20240307",
   "claude-opus-4-20250514", "claude-sonnet-4-20250514"}
GoogleModels ==
  {"gemini-1.5-pro", "gemini-1.5-flash", "gemini-2.5-pro", "gemini-2.5-flash",
   "gemini-2.0-flash"}

NoConfig == [provider |-> "none", contextWindow |-> 0]

\* MODEL_CONFIGS / getModelConfig
GetModelConfig(model) ==
  IF model \in OpenAIModels
  THEN [provider |-> "openai",
        contextWindow |-> IF model \in {"o3-pro", "o3-pro-deep-research"} THEN 256000 ELSE 128000]
  ELSE IF model \in AnthropicModels THEN [provider |-> "anthropic", contextWindow |-> 200000]
  ELSE IF model \in GoogleModels THEN [provider |-> "google", contextWindow |-> 1000000]
  ELSE NoConfig

\* getFallbackModel
GetFallbackModel(model) ==
  CASE model = "gpt-4.5-research-preview" -> "gpt-4.1-latest"
    [] model = "gpt-4.1-latest" -> "gpt-4o"
    [] model = "o3-pro-deep-research" -> "o3-pro"
    [] model = "o3-pro" -> "gpt-4o"
    [] model = "o4-mini-deep-research" -> "o1-mini"
    [] model = "o1-preview" -> "gpt-4o"
    [] model = "claude-opus-4-20250514" -> "claude-sonnet-4-20250514"
    [] model = "claude-sonnet-4-20250514" -> "claude-3-opus-20240229"
    [] model = "claude-3-opus-20240229" -> "claude-3-sonnet-20240229"
    [] model = "gemini-2.5-pro" -> "gemini-2.5-flash"
    [] model = "gemini-2.5-flash" -> "gemini-2.0-flash"
    [] model = "gemini-2.0-flash" -> "gemini-1.5-pro"
    [] model = "gemini-1.5-pro" -> "gemini-1.5-flash"
    [] OTHER -> Null

\* estimateTokenCount: Math.ceil(totalChars / 4)
EstimateTokenCount(totalChars) == (totalChars + 3) \div 4

\* retryWithBackoff, lines 144-148
IsRetryable(e) == e.status \in {429, 500, 502, 503, 504}

\* retryWithBackoff, lines 141-150: after attempt i (from 0) failed with e
RetryDecision(i, e) ==
  IF i = MaxRetries - 1 THEN "throw"
  ELSE IF ~IsRetryable(e) THEN "throw"
  ELSE "wait"

\* retryWithBackoff, line 152: Math.pow(2, i) * 1000
BackoffMs(i) == (2 ^ i) * 1000

(* Specification of generateResponse, one call at a time.  The models offered *)
(* are two OpenAI models (the first falls back to the second) and a name that *)
(* MODEL_CONFIGS does not list; rl is the OpenAI rate limiter.                *)

GRModels == {"gpt-4.1-latest", "gpt-4o", "not-a-model"}
GRSupported == { m \in GRModels : GetModelConfig(m) # NoConfig }
GRChars == {5, 512001}              \* total characters of fullMessages
AdapterOutcomes == {200, 429, 503, 401}   \* HTTP outcome of one provider call

\* the request (model, messages, parameters) as the cache would see it
GRRequest(model) ==
  [model |-> model, messages |-> CacheMsg("hello", "alice"), parameters |-> CacheParams("0.7", "1.0")]

NoResult == [kind |-> "none", value |-> "none"]
Response(v) == [kind |-> "response", value |-> v]
Failure(name) == [kind |-> "error", value |-> name]

GRFresh ==
  [pc |-> "idle", model |-> "none", i |-> 0, calls |-> 0, onlyRetryable |-> TRUE,
   sawOpen |-> FALSE, cached |-> Null, wakeAt |-> NoTime, result |-> NoResult]

\* a generateResponse call that has settled with result r
GRDone(g, r) == [g EXCEPT !.pc = "done", !.result = r]

GRInit ==
  /\ now = 0
  /\ breakers = [m \in GRSupported |-> CBNew(FALSE)]
  /\ rl = RLNew(OpenAIRpm, 0)
  /\ \E e \in BOOLEAN : cache = CacheNew(e)
  /\ gr = GRFresh
  /\ grCount = 0
  /\ last = NoOp
  /\ cb = NoBreaker /\ inflight = 0 /\ probes = 0 /\ consec = 0
  /\ admitted = <<>> /\ lastSet = <<>> /\ evicted = {}
  /\ OrchIdle

GRTick ==
  /\ now < MaxGRTicks * TickMs
  /\ now' = now + TickMs
  /\ UNCHANGED <<grVars, rl, cache, last, cbVars, admitted, lastSet, evicted, orchVars>>

\* another holder of the cache singleton stores a response for a request
GRCacheSeed ==
  /\ cache.keys = <<>>
  /\ \E m \in GRSupported : cache' = CacheSet(cache, GRRequest(m), "cached", now)
  /\ UNCHANGED <<now, grVars, rl, last, cbVars, admitted, lastSet, evicted, orchVars>>

\* generateResponse(agentConfig, messages, apiKey, options) up to the first
\* provider call: lines 161-180 (model lookup, breaker), execute lines 30-40,
\* then the wrapped function: checkLimit, context window check, first attempt of
\* retryWithBackoff.  execute is called as execute(fn, fallbackClosure): the
\* closure travels in ...args, which reach only fn (which takes no arguments)
\* and this.fallbackFunction, which getBreaker(model, {failureThreshold,
\* resetTimeout, halfOpenRequests}) leaves null.
GRStart ==
  \E m \in GRModels, chars \in GRChars :
    LET cfg == GetModelConfig(m)
        g0 == [GRFresh EXCEPT !.model = m,
                 !.cached = IF cfg = NoConfig THEN Null
                            ELSE CacheGetResult(cache, GRRequest(m), now)]
    IN
    /\ gr.pc \in {"idle", "done"}
    /\ grCount < MaxGRRequests
    /\ grCount' = grCount + 1
    /\ IF cfg = NoConfig
       THEN /\ gr' = GRDone(g0, Failure("ModelNotSupported"))
            /\ UNCHANGED <<breakers, rl>>
       ELSE IF CBRefuses(breakers[m], now)
       THEN /\ gr' = GRDone([g0 EXCEPT !.sawOpen = TRUE],
                            IF breakers[m].fallback THEN Response("fallbackFunction")
                            ELSE Failure("CircuitOpen"))
            /\ UNCHANGED <<breakers, rl>>
       ELSE LET b1 == CBEnter(breakers[m], now)
                v == RLVerdict(rl, now)
            IN  /\ rl' = RLCheckLimit(rl, now)
                /\ IF v = "throw"
                   THEN /\ breakers' = [breakers EXCEPT ![m] = CBOnFailure(b1, now)]
                        /\ gr' = GRDone(g0, Failure("RateLimitExceeded"))
                   ELSE IF EstimateTokenCount(chars) > cfg.contextWindow
                   THEN /\ breakers' = [breakers EXCEPT ![m] = CBOnFailure(b1, now)]
                        /\ gr' = GRDone(g0, Failure("ContextWindowExceededError"))
                   ELSE /\ breakers' = [breakers EXCEPT ![m] = b1]
                        /\ gr' = [g0 EXCEPT !.pc = "adapter", !.calls = 1]
    /\ UNCHANGED <<now, cache, last, cbVars, admitted, lastSet, evicted, orchVars>>

\* the pending await of the call settles: the provider call returns or throws
\* (lines 203-217, then retryWithBackoff lines 139-154 and execute lines 43-48),
\* or the backoff timer fires and the next attempt is made
GRSettle ==
  \E http \in AdapterOutcomes :
    LET m == gr.model
        e == MapProviderError(GetModelConfig(m).provider,
                              RawError(GetModelConfig(m).provider, http))
        g1 == [gr EXCEPT !.onlyRetryable = gr.onlyRetryable /\ http \in {429, 500, 502, 503, 504}]
    IN
    /\ gr.pc \in {"adapter", "backoff"}
    /\ IF gr.pc = "backoff"
       THEN /\ now >= gr.wakeAt
            /\ gr' = [gr EXCEPT !.pc = "adapter", !.i = gr.i + 1, !.calls = gr.calls + 1]
            /\ UNCHANGED breakers
       ELSE IF http = 200
       THEN /\ gr' = GRDone(gr, Response(m))
            /\ breakers' = [breakers EXCEPT ![m] = CBOnSuccess(breakers[m])]
       ELSE IF RetryDecision(gr.i, e) = "throw"
       THEN /\ gr' = GRDone(g1, Failure(e.name))
            /\ breakers' = [breakers EXCEPT ![m] = CBOnFailure(breakers[m], now)]
       ELSE /\ gr' = [g1 EXCEPT !.pc = "backoff", !.wakeAt = now + BackoffMs(gr.i)]
            /\ UNCHANGED breakers
    /\ UNCHANGED <<now, grCount, rl, cache, last, cbVars, admitted, lastSet, evicted, orchVars>>

GRNext == GRTick \/ GRCacheSeed \/ GRStart \/ GRSettle

SpecGR == GRInit /\ [][GRNext]_vars

(* Claims about generateResponse, checked under SpecGR *)

\* C5: a generateResponse call that finds its model's breaker OPEN inside the
\* reset timeout, for a model with a configured fallback model, is answered
\* through the fallback model and not with the circuit-open error.
C5_OpenBreakerFallsBack ==
  (gr.pc = "done" /\ gr.sawOpen /\ GetFallbackModel(gr.model) # Null)
    => gr.result # Failure("CircuitOpen")

\* C6: when every attempt fails with a retryable status (429, 500, 502, 503,
\* 504) the provider adapter is invoked exactly 3 times before the error
\* propagates; after a successful attempt no further attempt is made.
C6_ThreeAttempts ==
  (gr.pc = "done" /\ gr.result.kind = "error" /\ gr.calls >= 1 /\ gr.onlyRetryable)
    => gr.calls = MaxRetries

\* C9: when the cache holds a live entry for the request at the time of the
\* call, generateResponse returns the cached response and invokes no provider
\* adapter.
C9_CacheHitSkipsProvider ==
  (gr.pc # "idle" /\ gr.cached # Null)
    => (gr.pc = "done" /\ gr.calls = 0 /\ gr.result = Response(gr.cached))

----------------------------------------------------------------------------
(* OrchestrationService, backend/orchestration-service.js.                  *)
(* Every strategy calls an agent the same way: the agent's breaker          *)
(* ('agent-' + agent.type) wraps llmService.generateResponse, which wraps   *)
(* the provider call in the model's breaker, the provider's rate limiter    *)
(* and retryWithBackoff.  The three are process-wide singletons, kept here  *)
(* in one record sv = [ab, mb, rl].                                         *)

notOrch == <<cbVars, rlVars, cacheVars, grVars, last, sessVars>>

\* the agents of a request: two agents share a type and a model, hence an
\* agent breaker, a model breaker and a rate limiter
OrchAgents ==
  << [name |-> "Analyzer", type |-> "openai", model |-> "gpt-4o"],
     [name |-> "GPT", type |-> "openai", model |-> "gpt-4o"],
     [name |-> "Claude", type |-> "anthropic", model |-> "claude-opus-4-20250514"] >>
OrchN == Len(OrchAgents)
OrchMessage == "What are the key benefits?"
OrchChars == 26                      \* characters of the messages of a request
OrchContents == {"alpha", "beta"}    \* response.content of a successful provider call

\* what the provider does with one call: an HTTP status, and the content on 200
ProviderOutcomes ==
  { [http |-> 200, content |-> c] : c \in OrchContents }
    \cup { [http |-> h, content |-> Null] : h \in {429, 503} }

\* LLMService constructor and CircuitBreakerManager: the limiters of the three
\* providers; the breakers are created on first use, with no fallbackFunction
SvNew(t) ==
  [ab |-> [ty \in { OrchAgents[i].type : i \in 1..OrchN } |-> CBNew(FALSE)],
   mb |-> [m \in { OrchAgents[i].model : i \in 1..OrchN } |-> CBNew(FALSE)],
   rl |-> [p \in {"openai", "anthropic", "google"} |->
             RLNew(IF p = "openai" THEN OpenAIRpm ELSE OtherRpm, t)]]

\* one agent call: position (none, settling = rejects in this turn of the event
\* loop, adapter = provider call in flight, backoff, done), retry index, the
\* breakers that will record its failure, and what breaker.execute settled to
NoCall == [pc |-> "none", i |-> 0, wakeAt |-> NoTime, fail |-> "none", out |-> NoResult]
CallRejecting(fail, name) ==
  [NoCall EXCEPT !.pc = "settling", !.fail = fail, !.out = Failure(name)]

\* the synchronous part of breaker.execute(() => llmService.generateResponse(..)):
\* agent breaker (execute lines 30-40), model lookup, model breaker, checkLimit,
\* context window check
CallAdmit(sv, a, t) ==
  LET cfg == GetModelConfig(a.model)
      ab1 == [sv.ab EXCEPT ![a.type] = CBEnter(sv.ab[a.type], t)]
  IN
  IF CBRefuses(sv.ab[a.type], t)
  THEN [sv |-> sv, call |-> CallRejecting("none", "CircuitOpen")]
  ELSE IF cfg = NoConfig
  THEN [sv |-> [sv EXCEPT !.ab = ab1], call |-> CallRejecting("agent", "ModelNotSupported")]
  ELSE IF CBRefuses(sv.mb[a.model], t)
  THEN [sv |-> [sv EXCEPT !.ab = ab1], call |-> CallRejecting("agent", "CircuitOpen")]
  ELSE LET sv1 == [ab |-> ab1,
                   mb |-> [sv.mb EXCEPT ![a.model] = CBEnter(sv.mb[a.model], t)],
                   rl |-> [sv.rl EXCEPT ![cfg.provider] = RLCheckLimit(sv.rl[cfg.provider], t)]]
       IN  IF RLVerdict(sv.rl[cfg.provider], t) = "throw"
           THEN [sv |-> sv1, call |-> CallRejecting("both", "RateLimitExceeded")]
           ELSE IF EstimateTokenCount(OrchChars) > cfg.contextWindow
           THEN [sv |-> sv1, call |-> CallRejecting("both", "ContextWindowExceededError")]
           ELSE [sv |-> sv1, call |-> [NoCall EXCEPT !.pc = "adapter"]]

\* the rejection of a call that failed before its provider call reaches the
\* catch blocks of the breakers that admitted it (execute lines 46-48)
CallMicro(sv, a, c, t) ==
  [ab |-> IF c.fail \in {"agent", "both"}
          THEN [sv.ab EXCEPT ![a.type] = CBOnFailure(sv.ab[a.type], t)] ELSE sv.ab,
   mb |-> IF c.fail = "both"
          THEN [sv.mb EXCEPT ![a.model] = CBOnFailure(sv.mb[a.model], t)] ELSE sv.mb,
   rl |-> sv.rl]

\* an execute that looks at the breaker again once the wrapped call has returned
ExecuteResultRechecks(b, t, r) == IF CBRefuses(b, t) THEN Failure("CircuitOpen") ELSE r

\* execute, lines 43-48: what the wrapped call settled to is handed on as it is,
\* whatever the breaker b has become in the meantime
ExecuteResult(b, t, r) == r

\* the provider call of an admitted call settles with outcome o, or its backoff
\* timer fires: adapter, mapProviderError, retryWithBackoff lines 139-154, then
\* onSuccess / onFailure of the model breaker and of the agent breaker
CallSettle(sv, a, c, o, t) ==
  LET provider == GetModelConfig(a.model).provider
      e == MapProviderError(provider, RawError(provider, o.http))
      ok == [ab |-> [sv.ab EXCEPT ![a.type] = CBOnSuccess(sv.ab[a.type])],
             mb |-> [sv.mb EXCEPT ![a.model] = CBOnSuccess(sv.mb[a.model])],
             rl |-> sv.rl]
      ko == [ab |-> [sv.ab EXCEPT ![a.type] = CBOnFailure(sv.ab[a.type], t)],
             mb |-> [sv.mb EXCEPT ![a.model] = CBOnFailure(sv.mb[a.model], t)],
             rl |-> sv.rl]
  IN
  IF c.pc = "backoff"
  THEN [sv |-> sv, call |-> [c EXCEPT !.pc = "adapter", !.i = c.i + 1]]
  ELSE IF o.http = 200
  THEN [sv |-> ok,
        call |-> [c EXCEPT !.pc = "done",
                    !.out = ExecuteResult(sv.ab[a.type], t, Response(o.content))]]
  ELSE IF RetryDecision(c.i, e) = "throw"
  THEN [sv |-> ko,
        call |-> [c EXCEPT !.pc = "done",
                    !.out = ExecuteResult(sv.ab[a.type], t, Failure(e.name))]]
  ELSE [sv |-> sv, call |-> [c EXCEPT !.pc = "backoff", !.wakeAt = t + BackoffMs(c.i)]]

\* a call can take a step: its provider call is in flight or its backoff is over
CallPending(c, t) == c.pc = "adapter" \/ (c.pc = "backoff" /\ t >= c.wakeAt)

----------------------------------------------------------------------------
(* parallelStrategy.  par.run holds two copies of the service, each running  *)
(* the same requests with the same provider outcomes, until one provider     *)
(* call (of agent par.victim) succeeds in copy 1 and fails in copy 2.        *)

MaxParRuns == 2        \* parallel orchestrations explored
MaxParTicks == 4       \* clock steps explored by the parallel specification

notPar == <<notOrch, seq, pipe, comp, seek, cons>>

NoCalls == [i \in 1..OrchN |-> NoCall]

\* agents.map(async agent => ...) runs every agent's function up to its first
\* real wait, in agent order
RECURSIVE AdmitFrom(_, _, _)
AdmitFrom(r, i, t) ==
  IF i > OrchN THEN r
  ELSE LET a == CallAdmit(r.sv, OrchAgents[i], t)
       IN  AdmitFrom([r EXCEPT !.sv = a.sv, !.call[i] = a.call], i + 1, t)

\* then the calls that were refused or failed before their provider call reject
RECURSIVE MicroFrom(_, _, _)
MicroFrom(r, i, t) ==
  IF i > OrchN THEN r
  ELSE IF r.call[i].pc # "settling" THEN MicroFrom(r, i + 1, t)
  ELSE MicroFrom([r EXCEPT !.sv = CallMicro(r.sv, OrchAgents[i], r.call[i], t),
                           !.call[i].pc = "done"], i + 1, t)

\* an agent function without its catch block: Promise.allSettled sees a
\* rejection and the strategy fills in its placeholder
PSAgentResultNoCatch(a, out) ==
  IF out.kind = "response"
  THEN [agent |-> a.name, success |-> TRUE, response |-> out.value, error |-> Null]
  ELSE [agent |-> Null, success |-> FALSE, response |-> Null, error |-> out.value]

\* lines 80-116: what the promise of agent a is fulfilled with
PSAgentResult(a, out) ==
  IF out.kind = "response"
  THEN [agent |-> a.name, success |-> TRUE, response |-> out.value, error |-> Null]
  ELSE [agent |-> a.name, success |-> FALSE, response |-> Null, error |-> out.value]

ParFresh == [pc |-> "idle", sv |-> SvNew(0), call |-> NoCalls, returned |-> <<>>]

\* parallelStrategy up to await Promise.allSettled(promises)
PSStartOp(r, t) ==
  MicroFrom(AdmitFrom([r EXCEPT !.pc = "running", !.call = NoCalls, !.returned = <<>>], 1, t),
            1, t)

\* lines 119-127: every promise has settled
PSReturnOp(r) ==
  [r EXCEPT !.pc = "returned",
            !.returned = [i \in 1..OrchN |-> PSAgentResult(OrchAgents[i], r.call[i].out)]]

ParInit ==
  /\ now = 0
  /\ par = [run |-> <<ParFresh, ParFresh>>, victim |-> 0, count |-> 0]
  /\ seq = <<>> /\ pipe = <<>> /\ comp = <<>> /\ seek = <<>> /\ cons = <<>>
  /\ ResilienceIdle

ParTick ==
  /\ now < MaxParTicks * TickMs
  /\ now' = now + TickMs
  /\ UNCHANGED <<par, notPar>>

\* orchestrate(sessionId, agents, message, {orchestrationStrategy: 'parallel'})
PSStart ==
  /\ par.victim = 0
  /\ par.count < MaxParRuns
  /\ par.run[1].pc \in {"idle", "returned"}
  /\ par' = [par EXCEPT !.count = par.count + 1,
                        !.run = [k \in 1..2 |-> PSStartOp(par.run[k], now)]]
  /\ UNCHANGED <<now, notPar>>

\* the provider call of agent i settles, the same way in both copies
PSSettle ==
  \E i \in 1..OrchN, o \in ProviderOutcomes :
    /\ \A k \in 1..2 : par.run[k].pc = "running" /\ CallPending(par.run[k].call[i], now)
    /\ par' = [par EXCEPT !.run = [k \in 1..2 |->
                 LET s == CallSettle(par.run[k].sv, OrchAgents[i], par.run[k].call[i], o, now)
                 IN  [par.run[k] EXCEPT !.sv = s.sv, !.call[i] = s.call]]]
    /\ UNCHANGED <<now, notPar>>

\* the provider call of agent i succeeds in copy 1 and fails in copy 2
PSInduceFailure ==
  \E i \in 1..OrchN, o1 \in ProviderOutcomes, o2 \in ProviderOutcomes :
    /\ par.victim = 0
    /\ o1.http = 200 /\ o2.http # 200
    /\ \A k \in 1..2 : par.run[k].pc = "running" /\ par.run[k].call[i].pc = "adapter"
    /\ par' = [par EXCEPT !.victim = i,
                 !.run = [k \in 1..2 |->
                   LET s == CallSettle(par.run[k].sv, OrchAgents[i], par.run[k].call[i],
                                       IF k = 1 THEN o1 ELSE o2, now)
                   IN  [par.run[k] EXCEPT !.sv = s.sv, !.call[i] = s.call]]]
    /\ UNCHANGED <<now, notPar>>

\* Promise.allSettled resolves and the strategy returns
PSReturn ==
  /\ \A k \in 1..2 : /\ par.run[k].pc = "running"
                     /\ \A i \in 1..OrchN : par.run[k].call[i].pc = "done"
  /\ par' = [par EXCEPT !.run = [k \in 1..2 |-> PSReturnOp(par.run[k])]]
  /\ UNCHANGED <<now, notPar>>

ParNext == ParTick \/ PSStart \/ PSSettle \/ PSInduceFailure \/ PSReturn

SpecPar == ParInit /\ [][ParNext]_vars

(* Claims about parallelStrategy, checked under SpecPar *)

\* C11: parallelStrategy never rejects: it returns one result per agent, in
\* agent order, with success true and the response for every agent whose call
\* succeeded and success false and the error for every agent whose call failed,
\* and it returns only when the call of every agent has been made and settled.
C11_ParallelOneResultPerAgent ==
  \A k \in 1..2 :
    par.run[k].pc = "returned" =>
      /\ DOMAIN par.run[k].returned = 1..OrchN
      /\ \A i \in 1..OrchN :
           LET res == par.run[k].returned[i]
               c == par.run[k].call[i]
           IN  /\ c.pc = "done"
               /\ res.agent = OrchAgents[i].name
               /\ c.out.kind = "response" => (res.success /\ res.response = c.out.value)
               /\ c.out.kind = "error" => (~res.success /\ res.error = c.out.value)

\* a run in which one agent's provider call failed and the next one succeeded
C11_Witness ==
  /\ par.run[2].pc = "returned"
  /\ par.run[2].call[1].out = Failure("ProviderError")
  /\ par.run[2].returned[2].success
  /\ ~par.run[2].returned[3].success

\* C12: two parallel runs from the same state of the service that differ only
\* in that one agent's provider call fails in the second give every other
\* agent the same result.
C12_ParallelIsolation ==
  (par.victim # 0 /\ par.run[1].pc = "returned" /\ par.run[2].pc = "returned")
    => \A i \in 1..OrchN \ {par.victim} : par.run[1].returned[i] = par.run[2].returned[i]

\* the induced failure opened the agent breaker the victim shares with an agent
\* that answered after it, in the second run only
C12_Witness ==
  /\ par.victim = 1
  /\ par.run[1].pc = "returned" /\ par.run[2].pc = "returned"
  /\ par.run[1].returned[1].success /\ ~par.run[2].returned[1].success
  /\ par.run[2].sv.ab["openai"].state = "OPEN"
  /\ par.run[1].sv.ab["openai"].state = "CLOSED"
  /\ par.run[1].returned[2].success /\ par.run[2].returned[2].success

----------------------------------------------------------------------------
(* sequentialStrategy.  seq.passed[i] is the content of conversationHistory   *)
(* when it was handed to llmService.generateResponse for agent i, seq.outs[i] *)
(* what the call of agent i settled to.                                       *)

MaxSeqRuns == 2        \* sequential orchestrations explored
MaxSeqTicks == 4       \* clock steps explored by the sequential specification

notSeq == <<notOrch, par, pipe, comp, seek, cons>>

NotPassed == <<>>      \* generateResponse was not called (the history is never empty)
UserTurn(content) == [role |-> "user", content |-> content, name |-> Null]

\* a chain that records the turn without the name of its agent
SeqOnSuccessUntagged(h, a, response) ==
  Append(h, [role |-> "assistant", content |-> response, name |-> Null])

\* lines 170-175: the assistant turn appended after a successful agent
SeqOnSuccess(h, a, response) ==
  Append(h, [role |-> "assistant", content |-> response, name |-> a.name])

SeqFresh ==
  [pc |-> "idle", sv |-> SvNew(0), breakOnError |-> FALSE, i |-> 0, call |-> NoCall,
   history |-> <<>>, passed |-> [j \in 1..OrchN |-> NotPassed],
   outs |-> [j \in 1..OrchN |-> NoResult], results |-> <<>>, count |-> 0]

\* lines 141-189 for the call of agent q.i that has settled to out: the result
\* and the assistant turn are pushed, or the failure is pushed and the chain
\* is broken when settings.breakOnError is set
SeqRecord(q, out) ==
  LET a == OrchAgents[q.i]
      q1 == [q EXCEPT !.outs[q.i] = out, !.call = NoCall]
  IN  IF out.kind = "response"
      THEN [q1 EXCEPT !.results = Append(q.results, PSAgentResult(a, out)),
                      !.history = SeqOnSuccess(q.history, a, out.value)]
      ELSE [q1 EXCEPT !.results = Append(q.results, PSAgentResult(a, out)),
                      !.pc = IF q.breakOnError THEN "returned" ELSE q.pc]

\* the for loop from the agent after q.i up to the next provider call or to
\* the return: a call that is refused, or fails before its provider call, is
\* recorded at once
RECURSIVE SeqAdvance(_, _)
SeqAdvance(q, t) ==
  IF q.pc = "returned" THEN q
  ELSE IF q.i = OrchN THEN [q EXCEPT !.pc = "returned"]
  ELSE LET i == q.i + 1
           a == CallAdmit(q.sv, OrchAgents[i], t)
           q1 == [q EXCEPT !.i = i, !.sv = a.sv, !.call = a.call,
                    !.passed[i] = IF a.call.pc = "settling" /\ a.call.fail = "none"
                                  THEN NotPassed ELSE q.history]
       IN  IF a.call.pc = "settling"
           THEN SeqAdvance(SeqRecord([q1 EXCEPT !.sv = CallMicro(a.sv, OrchAgents[i], a.call, t)],
                                     a.call.out), t)
           ELSE [q1 EXCEPT !.pc = "calling"]

SeqInit ==
  /\ now = 0
  /\ seq = SeqFresh
  /\ par = <<>> /\ pipe = <<>> /\ comp = <<>> /\ seek = <<>> /\ cons = <<>>
  /\ ResilienceIdle

SeqTick ==
  /\ now < MaxSeqTicks * TickMs
  /\ now' = now + TickMs
  /\ UNCHANGED <<seq, notSeq>>

\* orchestrate(sessionId, agents, message, settings, 'sequential')
SSStart ==
  \E boe \in BOOLEAN :
    /\ seq.pc \in {"idle", "returned"}
    /\ seq.count < MaxSeqRuns
    /\ seq' = SeqAdvance([SeqFresh EXCEPT !.pc = "running", !.sv = seq.sv, !.breakOnError = boe,
                            !.history = <<UserTurn(OrchMessage)>>,
                            !.count = seq.count + 1], now)
    /\ UNCHANGED <<now, notSeq>>

\* the provider call of the current agent settles
SSSettle ==
  \E o \in ProviderOutcomes :
    /\ seq.pc = "calling" /\ CallPending(seq.call, now)
    /\ LET s == CallSettle(seq.sv, OrchAgents[seq.i], seq.call, o, now)
           q1 == [seq EXCEPT !.sv = s.sv, !.call = s.call]
       IN  seq' = IF s.call.pc = "done"
                  THEN SeqAdvance(SeqRecord([q1 EXCEPT !.pc = "running"], s.call.out), now)
                  ELSE q1
    /\ UNCHANGED <<now, notSeq>>

SeqNext == SeqTick \/ SSStart \/ SSSettle

SpecSeq == SeqInit /\ [][SeqNext]_vars

(* Claims about sequentialStrategy, checked under SpecSeq *)

\* the assistant turns of the agents 1..n that succeeded, in order
RECURSIVE SeqTurnsUpTo(_)
SeqTurnsUpTo(n) ==
  IF n = 0 THEN <<>>
  ELSE SeqTurnsUpTo(n - 1) \o
         (IF seq.outs[n].kind = "response"
          THEN <<[role |-> "assistant", content |-> seq.outs[n].value,
                  name |-> OrchAgents[n].name]>>
          ELSE <<>>)

\* C13: in sequentialStrategy the message list passed to agent i is the user
\* message followed by one assistant turn, tagged with its agent's name, for
\* every agent before i that succeeded, in agent order, and nothing from the
\* agents that failed.
C13_SequentialHistory ==
  \A i \in 1..OrchN :
    (seq.pc # "idle" /\ seq.passed[i] # NotPassed)
      => seq.passed[i] = <<UserTurn(OrchMessage)>> \o SeqTurnsUpTo(i - 1)

\* the third agent was called after a success of the first and a failure of
\* the second
C13_Witness ==
  /\ seq.pc = "returned"
  /\ seq.outs[1].kind = "response" /\ seq.outs[2].kind = "error"
  /\ seq.passed[2] # NotPassed
  /\ Len(seq.passed[3]) = 2 /\ seq.passed[3][2].name = "Analyzer"

----------------------------------------------------------------------------
(* pipelineStrategy.  pipe.passed[i] is the message list handed to            *)
(* llmService.generateResponse for stage i, pipe.outs[i] what the call of     *)
(* stage i settled to.                                                        *)

MaxPipeRuns == 2       \* pipeline orchestrations explored
MaxPipeTicks == 4      \* clock steps explored by the pipeline specification

notPipe == <<notOrch, par, seq, comp, seek, cons>>

BreakSettings == {"undefined", "false"}     \* settings.breakOnError

\* a pipeline that feeds whatever the stage settled to into the next stage
PipeInputAfterAlways(currentInput, out) == out.value

\* lines 261-262 and 264-271: the input of the next stage
PipeInputAfter(currentInput, out) ==
  IF out.kind = "response" THEN out.value ELSE currentInput

\* lines 252-258 and 266-271: the entry pushed to results
PipeStageResult(a, currentInput, out) ==
  IF out.kind = "response"
  THEN [agent |-> a.name, input |-> currentInput, output |-> out.value,
        error |-> Null, success |-> TRUE]
  ELSE [agent |-> a.name, input |-> currentInput, output |-> Null,
        error |-> out.value, success |-> FALSE]

\* line 281: results[results.length - 1]?.output || null
PipeFinalOutput(results) ==
  IF results = <<>> THEN Null
  ELSE LET r == results[Len(results)]
       IN  IF r.success /\ r.output # "" THEN r.output ELSE Null

PipeFresh ==
  [pc |-> "idle", sv |-> SvNew(0), breakOnError |-> "undefined", i |-> 0, call |-> NoCall,
   currentInput |-> Null, passed |-> [j \in 1..OrchN |-> NotPassed],
   outs |-> [j \in 1..OrchN |-> NoResult], results |-> <<>>, finalOutput |-> Null,
   count |-> 0]

\* lines 279-282
PipeReturn(q) == [q EXCEPT !.pc = "returned", !.finalOutput = PipeFinalOutput(q.results)]

\* lines 231-276 for the call of stage q.i that has settled to out
PipeRecord(q, out) ==
  LET a == OrchAgents[q.i]
      q1 == [q EXCEPT !.outs[q.i] = out, !.call = NoCall,
               !.results = Append(q.results, PipeStageResult(a, q.currentInput, out)),
               !.currentInput = PipeInputAfter(q.currentInput, out)]
  IN  IF out.kind = "error" /\ q.breakOnError # "false" THEN PipeReturn(q1) ELSE q1

\* the for loop from the stage after q.i up to the next provider call or to
\* the return
RECURSIVE PipeAdvance(_, _)
PipeAdvance(q, t) ==
  IF q.pc = "returned" THEN q
  ELSE IF q.i = OrchN THEN PipeReturn(q)
  ELSE LET i == q.i + 1
           a == CallAdmit(q.sv, OrchAgents[i], t)
           q1 == [q EXCEPT !.i = i, !.sv = a.sv, !.call = a.call,
                    !.passed[i] = IF a.call.pc = "settling" /\ a.call.fail = "none"
                                  THEN NotPassed ELSE <<UserTurn(q.currentInput)>>]
       IN  IF a.call.pc = "settling"
           THEN PipeAdvance(PipeRecord([q1 EXCEPT !.sv = CallMicro(a.sv, OrchAgents[i], a.call, t)],
                                       a.call.out), t)
           ELSE [q1 EXCEPT !.pc = "calling"]

PipeInit ==
  /\ now = 0
  /\ pipe = PipeFresh
  /\ par = <<>> /\ seq = <<>> /\ comp = <<>> /\ seek = <<>> /\ cons = <<>>
  /\ ResilienceIdle

PipeTick ==
  /\ now < MaxPipeTicks * TickMs
  /\ now' = now + TickMs
  /\ UNCHANGED <<pipe, notPipe>>

\* orchestrate(sessionId, agents, message, settings, 'pipeline')
PLStart ==
  \E boe \in BreakSettings :
    /\ pipe.pc \in {"idle", "returned"}
    /\ pipe.count < MaxPipeRuns
    /\ pipe' = PipeAdvance([PipeFresh EXCEPT !.pc = "running", !.sv = pipe.sv,
                              !.breakOnError = boe, !.currentInput = OrchMessage,
                              !.count = pipe.count + 1], now)
    /\ UNCHANGED <<now, notPipe>>

\* the provider call of the current stage settles
PLSettle ==
  \E o \in ProviderOutcomes :
    /\ pipe.pc = "calling" /\ CallPending(pipe.call, now)
    /\ LET s == CallSettle(pipe.sv, OrchAgents[pipe.i], pipe.call, o, now)
           q1 == [pipe EXCEPT !.sv = s.sv, !.call = s.call]
       IN  pipe' = IF s.call.pc = "done"
                   THEN PipeAdvance(PipeRecord([q1 EXCEPT !.pc = "running"], s.call.out), now)
                   ELSE q1
    /\ UNCHANGED <<now, notPipe>>

PipeNext == PipeTick \/ PLStart \/ PLSettle

SpecPipe == PipeInit /\ [][PipeNext]_vars

(* Claims about pipelineStrategy, checked under SpecPipe *)

\* the stages before stage n + 1 that succeeded
PipeSucceededUpTo(n) == { j \in 1..n : pipe.outs[j].kind = "response" }
Max(S) == CHOOSE x \in S : \A y \in S : y <= x

\* C14: the finalOutput returned by pipelineStrategy is the output of the last
\* stage that succeeded, whatever the pattern of stage successes and failures,
\* in particular when the last stage that ran failed.
C14_FinalOutputIsLastSuccess ==
  (pipe.pc = "returned" /\ PipeSucceededUpTo(OrchN) # {})
    => pipe.finalOutput = pipe.outs[Max(PipeSucceededUpTo(OrchN))].value

\* C15: each pipeline stage receives as its only user turn the output of the
\* nearest preceding stage that succeeded, and the user message when there is
\* none, as for the first stage.
C15_StageInput ==
  \A i \in 1..OrchN :
    (pipe.pc # "idle" /\ pipe.passed[i] # NotPassed)
      => pipe.passed[i] =
           <<UserTurn(IF PipeSucceededUpTo(i - 1) = {} THEN OrchMessage
                      ELSE pipe.outs[Max(PipeSucceededUpTo(i - 1))].value)>>

\* the third stage ran on the output of the first after the second had failed
C15_Witness ==
  /\ pipe.pc = "returned"
  /\ pipe.outs[1] = Response("alpha") /\ pipe.outs[2].kind = "error"
  /\ pipe.passed[2] = <<UserTurn("alpha")>>
  /\ pipe.passed[3] = <<UserTurn("alpha")>>
  /\ pipe.outs[3] = Response("beta")

----------------------------------------------------------------------------
(* competitiveStrategy.  The calls of an orchestration go on after the race   *)
(* is decided; the next orchestration is started once they have all settled.  *)
(* The timer callback runs as soon as the clock has reached the deadline,     *)
(* before any provider call that settles at that time.                        *)

MaxCompRuns == 2       \* competitive orchestrations explored
MaxCompTicks == 3      \* clock steps explored by the competitive specification

CompetitiveTimeout == 10000     \* settings.competitiveTimeout || 10000

notComp == <<notOrch, par, seq, pipe, seek, cons>>

CompFresh ==
  [pc |-> "idle", sv |-> SvNew(0), call |-> NoCalls, deadline |-> NoTime,
   timedOut |-> FALSE, winner |-> 0, result |-> NoResult,
   firstOk |-> 0, failedAfterWin |-> {}, count |-> 0]

\* a race settled by the first promise to settle, fulfilled or rejected
CompAnyFirstSettled(q, i) ==
  IF q.pc # "racing" THEN q
  ELSE IF q.call[i].out.kind = "response"
  THEN [q EXCEPT !.pc = "resolved", !.winner = i, !.result = q.call[i].out]
  ELSE [q EXCEPT !.pc = "rejected", !.result = Failure("AggregateError")]

\* lines 324-339, Promise.race([Promise.any(promises), timer]) when the promise
\* of agent i has settled: the first fulfilment resolves the race, the last of
\* all rejections rejects it with the AggregateError of Promise.any, which the
\* catch block rethrows
CompAny(q, i) ==
  IF q.pc # "racing" THEN q
  ELSE IF q.call[i].out.kind = "response"
  THEN [q EXCEPT !.pc = "resolved", !.winner = i, !.result = q.call[i].out]
  ELSE IF \A j \in 1..OrchN : q.call[j].pc = "done" /\ q.call[j].out.kind = "error"
  THEN [q EXCEPT !.pc = "rejected", !.result = Failure("AggregateError")]
  ELSE q

\* the promises rejected before any provider call, in agent order
RECURSIVE CompAnyFrom(_, _)
CompAnyFrom(q, i) ==
  IF i > OrchN THEN q
  ELSE CompAnyFrom(IF q.call[i].pc = "done" THEN CompAny(q, i) ELSE q, i + 1)

CompInit ==
  /\ now = 0
  /\ comp = CompFresh
  /\ par = <<>> /\ seq = <<>> /\ pipe = <<>> /\ seek = <<>> /\ cons = <<>>
  /\ ResilienceIdle

CompTick ==
  /\ now < MaxCompTicks * TickMs
  /\ now' = now + TickMs
  /\ UNCHANGED <<comp, notComp>>

\* orchestrate(sessionId, agents, message, settings, 'competitive'), lines
\* 286-331: every agent's call is started and the timer is armed
CPStart ==
  /\ comp.pc \in {"idle", "resolved", "rejected"}
  /\ \A i \in 1..OrchN : comp.call[i].pc \in {"none", "done"}
  /\ comp.count < MaxCompRuns
  /\ comp' = CompAnyFrom(
               MicroFrom(AdmitFrom([CompFresh EXCEPT !.pc = "racing", !.sv = comp.sv,
                                      !.deadline = now + CompetitiveTimeout,
                                      !.count = comp.count + 1], 1, now), 1, now), 1)
  /\ UNCHANGED <<now, notComp>>

\* the provider call of agent i settles
CPSettle ==
  \E i \in 1..OrchN, o \in ProviderOutcomes :
    /\ comp.pc # "idle" /\ CallPending(comp.call[i], now)
    /\ comp.pc = "racing" => now < comp.deadline
    /\ LET s == CallSettle(comp.sv, OrchAgents[i], comp.call[i], o, now)
           q1 == [comp EXCEPT !.sv = s.sv, !.call[i] = s.call,
                    !.firstOk = IF comp.firstOk = 0 /\ ~comp.timedOut
                                   /\ s.call.pc = "done" /\ s.call.out.kind = "response"
                                THEN i ELSE comp.firstOk,
                    !.failedAfterWin =
                       IF comp.pc = "resolved" /\ s.call.pc = "done" /\ s.call.out.kind = "error"
                       THEN comp.failedAfterWin \cup {i} ELSE comp.failedAfterWin]
       IN  comp' = IF s.call.pc = "done" THEN CompAny(q1, i) ELSE q1
    /\ UNCHANGED <<now, notComp>>

\* lines 328-337: the timer fires while the race is undecided
CPTimeout ==
  /\ comp.pc = "racing" /\ now >= comp.deadline
  /\ comp' = [comp EXCEPT !.pc = "rejected", !.timedOut = TRUE,
                !.result = Failure("No agent responded within the timeout period")]
  /\ UNCHANGED <<now, notComp>>

CompNext == CompTick \/ CPStart \/ CPSettle \/ CPTimeout

SpecComp == CompInit /\ [][CompNext]_vars

(* Claims about competitiveStrategy, checked under SpecComp *)

\* C16: when at least one agent succeeds before the timeout, competitiveStrategy
\* resolves with the result of the agent that succeeded first, however many
\* other agents have failed before it or are still running.
C16_FirstSuccessWins ==
  comp.firstOk # 0 =>
    /\ comp.pc = "resolved"
    /\ comp.winner = comp.firstOk
    /\ comp.result = comp.call[comp.firstOk].out

\* the second agent won after the first had failed, the third still running
C16_Witness ==
  /\ comp.firstOk = 2 /\ comp.pc = "resolved"
  /\ comp.call[1].out.kind = "error" /\ comp.call[1].pc = "done"
  /\ comp.call[3].pc = "adapter"

\* C17: once one agent has succeeded in competitiveStrategy and its result has
\* been returned, no losing call records a failure at a circuit breaker.
C17_LosersRecordNoFailure == comp.failedAfterWin = {}

\* C18: when no agent succeeds before the competitive timeout, whether the
\* agents are still running or have all failed already, the strategy fails
\* with the competitive-timeout error.
C18_NoSuccessMeansTimeoutError ==
  (comp.pc \in {"resolved", "rejected"} /\ comp.firstOk = 0)
    => comp.result = Failure("No agent responded within the timeout period")

----------------------------------------------------------------------------
(* UnifiedOrchestrator.seekConsensus, backend/unified-llm-core.js.           *)
(* A response text is the sequence of its sentences (the pieces between       *)
(* runs of . ! ?); a sentence carries its text, the length of the trimmed     *)
(* text and what toLowerCase().trim() makes of its first 100 characters.      *)

MaxSeekAgents == 3     \* responses handed to seekConsensus
MaxSentences == 2      \* sentences of one response

notSeek == <<notOrch, par, seq, pipe, comp, cons>>

Sentences ==
  { [raw |-> "Integration is key", len |-> 18, norm |-> "integration is key"],
    [raw |-> " Integration is the key to success", len |-> 33,
     norm |-> "integration is the key to success"],
    [raw |-> "INTEGRATION IS THE KEY TO SUCCESS", len |-> 33,
     norm |-> "integration is the key to success"],
    [raw |-> "Testing must come before every release", len |-> 38,
     norm |-> "testing must come before every release"] }

\* the texts of at most MaxSentences sentences
Texts == UNION { [1..n -> Sentences] : n \in 0..MaxSentences }

SeekAgentNames == <<"Claude", "GPT", "Gemini">>

\* extractKeyPoints: the first three sentences longer than 20 characters
ExtractKeyPoints(text) ==
  LET long == SelectSeq(text, LAMBDA x : x.len > 20)
  IN  SubSeq(long, 1, Min(3, Len(long)))

\* seekConsensus, line 949
ValidResponses(responses) == SelectSeq(responses, LAMBDA r : r.success)

\* line 962: keyPoints.flatMap(kp => kp.points) over the first n valid responses
RECURSIVE AllPoints(_, _)
AllPoints(valid, n) ==
  IF n = 0 THEN <<>> ELSE AllPoints(valid, n - 1) \o ExtractKeyPoints(valid[n].content)

\* lines 963-968: pointFrequency[normalized], one count per occurrence
PointFrequency(allPoints, normalized) ==
  Cardinality({ i \in DOMAIN allPoints : allPoints[i].norm = normalized })

\* line 971: Math.ceil(validResponses.length * 0.6)
ConsensusThreshold(n) == (6 * n + 9) \div 10

\* lines 972-974
ConsensusPoints(valid) ==
  LET allPoints == AllPoints(valid, Len(valid))
  IN  { allPoints[i].norm : i \in { j \in DOMAIN allPoints :
          PointFrequency(allPoints, allPoints[j].norm) >= ConsensusThreshold(Len(valid)) } }

NoConsensus == [reached |-> FALSE, points |-> {}, participants |-> <<>>]

\* the value seekConsensus returns
SeekResult(responses) ==
  LET valid == ValidResponses(responses)
  IN  IF Len(valid) = 0 THEN NoConsensus
      ELSE IF ConsensusPoints(valid) # {}
      THEN [reached |-> TRUE, points |-> ConsensusPoints(valid),
            participants |-> [i \in 1..Len(valid) |-> valid[i].agent]]
      ELSE NoConsensus

\* lines 976-983: the shared fact stored when there are consensus points
SeekFacts(facts, responses, message) ==
  LET valid == ValidResponses(responses)
  IN  IF Len(valid) > 0 /\ ConsensusPoints(valid) # {}
      THEN facts \cup {[fact |-> message,
                        confidence |-> <<Cardinality(ConsensusPoints(valid)),
                                         Len(AllPoints(valid, Len(valid)))>>,
                        sources |-> [i \in 1..Len(valid) |-> valid[i].agent]]}
      ELSE facts

SeekInit ==
  /\ now = 0
  /\ seek = [pc |-> "collect", responses |-> <<>>, result |-> NoConsensus, facts |-> {}]
  /\ par = <<>> /\ seq = <<>> /\ pipe = <<>> /\ comp = <<>> /\ cons = <<>>
  /\ ResilienceIdle

\* executeStrategy delivers the response of the next agent
SKRespond ==
  \E ok \in BOOLEAN, text \in Texts :
    /\ seek.pc = "collect"
    /\ Len(seek.responses) < MaxSeekAgents
    /\ ok \/ text = <<>>
    /\ seek' = [seek EXCEPT !.responses =
                  Append(seek.responses,
                         [success |-> ok, agent |-> SeekAgentNames[Len(seek.responses) + 1],
                          content |-> text])]
    /\ UNCHANGED <<now, notSeek>>

\* seekConsensus(responses, originalMessage)
SKSeek ==
  /\ seek.pc = "collect"
  /\ seek' = [seek EXCEPT !.pc = "done",
                !.result = SeekResult(seek.responses),
                !.facts = SeekFacts(seek.facts, seek.responses, "Consensus on: " \o OrchMessage)]
  /\ UNCHANGED <<now, notSeek>>

SeekNext == SKRespond \/ SKSeek

SpecSeek == SeekInit /\ [][SeekNext]_vars

(* Claim about seekConsensus, checked under SpecSeek *)

\* the successful agents whose key points include the point
AgentsWithPoint(valid, normalized) ==
  { i \in 1..Len(valid) :
      \E k \in DOMAIN ExtractKeyPoints(valid[i].content) :
        ExtractKeyPoints(valid[i].content)[k].norm = normalized }

\* C19: seekConsensus returns reached true and records a shared fact exactly
\* when some key point is present in the responses of at least ceil(0.6 |S|)
\* of the successful agents S; otherwise it returns reached false and records
\* no fact.
C19_ConsensusIffSupermajority ==
  seek.pc = "done" =>
    LET valid == ValidResponses(seek.responses)
        agreed == /\ Len(valid) > 0
                  /\ \E s \in Sentences :
                       Cardinality(AgentsWithPoint(valid, s.norm))
                         >= ConsensusThreshold(Len(valid))
                       /\ AgentsWithPoint(valid, s.norm) # {}
    IN  /\ seek.result.reached <=> agreed
        /\ seek.facts # {} <=> agreed

----------------------------------------------------------------------------
(* UnifiedOrchestrator.executeStrategy, strategy 'consensus', and            *)
(* checkConsensus.  A response content carries its text and the agreement    *)
(* phrases that content.toLowerCase().includes(phrase) finds in it.          *)

MaxConsAgents == 10    \* agents of a consensus orchestration
MaxConsRuns == 1       \* consensus orchestrations explored

MaxIterations == 5     \* executeStrategy, consensus: const maxIterations = 5

notCons == <<notOrch, par, seq, pipe, comp, seek>>

AgreementPhrases == {"agree", "consensus", "aligned", "same", "correct"}

ConsContents ==
  { [text |-> "I AGREE with the plan", phrases |-> {"agree"}],
    [text |-> "We see it the same way, correct", phrases |-> {"same", "correct"}],
    [text |-> "I disagree with the plan", phrases |-> {"agree"}],
    [text |-> "No, this will not work", phrases |-> {}] }

NoContent == [text |-> Null, phrases |-> {}]

\* checkConsensus, lines 936-941: the valid responses with an agreement phrase
AgreementCount(valid) ==
  Cardinality({ i \in DOMAIN valid : valid[i].content.phrases \cap AgreementPhrases # {} })

\* checkConsensus: agreementCount / validResponses.length > 0.7
CheckConsensus(responses) ==
  LET valid == ValidResponses(responses)
  IN  IF Len(valid) < 2 THEN FALSE
      ELSE 10 * AgreementCount(valid) > 7 * Len(valid)

\* synthesizeResponses: the prompt of the next iteration
SynthesizeResponses(responses) ==
  LET valid == ValidResponses(responses)
  IN  IF Len(valid) = 0 THEN <<"Let's reconsider this topic.">>
      ELSE <<"Based on the discussion so far:">>
             \o [i \in 1..Len(valid) |-> valid[i].content.text]

\* the responses of one iteration, one per agent (processMessage(...).then /
\* .catch): agreeing agents answer c, failing agents throw, the others answer d
IterationResponses(n, agreeing, failing, c, d) ==
  [i \in 1..n |->
     IF i <= agreeing THEN [success |-> TRUE, content |-> c]
     ELSE IF i <= agreeing + failing THEN [success |-> FALSE, content |-> NoContent]
     ELSE [success |-> TRUE, content |-> d]]

ConsFresh ==
  [pc |-> "idle", n |-> 0, iterations |-> 0, consensusReached |-> FALSE,
   responses |-> <<>>, prompt |-> <<>>, count |-> 0, dispatched |-> 0]

\* a loop that makes one round more than maxIterations
ConsContinuesInclusive(reached, iterations) ==
  ~reached /\ iterations <= MaxIterations

\* the loop test !consensusReached && iterations < maxIterations
ConsContinues(reached, iterations) ==
  ~reached /\ iterations < MaxIterations

ConsInit ==
  /\ now = 0
  /\ cons = ConsFresh
  /\ par = <<>> /\ seq = <<>> /\ pipe = <<>> /\ comp = <<>> /\ seek = <<>>
  /\ ResilienceIdle

\* executeStrategy('consensus', agents, message, context) up to the first
\* await Promise.all
CNStart ==
  \E n \in 1..MaxConsAgents :
    /\ cons.pc \in {"idle", "returned"}
    /\ cons.count < MaxConsRuns
    /\ cons' = [ConsFresh EXCEPT !.pc = "waiting", !.n = n, !.prompt = <<OrchMessage>>,
                                 !.count = cons.count + 1, !.dispatched = n]
    /\ UNCHANGED <<now, notCons>>

\* Promise.all of an iteration resolves: lines 826-828, then the loop test,
\* the next round of processMessage calls or the return
CNIteration ==
  \E agreeing \in 0..cons.n, failing \in 0..cons.n, c \in ConsContents, d \in ConsContents :
    /\ cons.pc = "waiting"
    /\ agreeing + failing <= cons.n
    /\ c.phrases # {} /\ d.phrases = {}
    /\ LET responses == IterationResponses(cons.n, agreeing, failing, c, d)
           reached == CheckConsensus(responses)
           more == ConsContinues(reached, cons.iterations + 1)
       IN  cons' = [cons EXCEPT !.responses = responses,
                      !.dispatched = IF more THEN @ + cons.n ELSE @,
                      !.consensusReached = reached,
                      !.iterations = cons.iterations + 1,
                      !.prompt = IF more THEN SynthesizeResponses(responses) ELSE cons.prompt,
                      !.pc = IF more THEN "waiting" ELSE "returned"]
    /\ UNCHANGED <<now, notCons>>

ConsNext == CNStart \/ CNIteration

SpecCons == ConsInit /\ [][ConsNext]_vars

(* Claim about the consensus strategy, checked under SpecCons *)

\* the responses of the iteration that contain an agreement phrase
ContainingAgreement(responses) ==
  { i \in DOMAIN responses :
      responses[i].success /\ responses[i].content.phrases \cap AgreementPhrases # {} }

\* C20: the consensus strategy declares consensus and stops iterating whenever
\* at least 70% of the responses of the iteration contain an agreement phrase,
\* also when exactly 70% do (7 of 10).
C20_SeventyPercentDeclares ==
  (cons.iterations > 0
     /\ 10 * Cardinality(ContainingAgreement(cons.responses)) >= 7 * Len(cons.responses))
    => (cons.consensusReached /\ cons.pc = "returned")

----------------------------------------------------------------------------
(* Strategy selection: OrchestrationService.orchestrate                      *)
(* (backend/orchestration-service.js) and UnifiedOrchestrator.executeStrategy *)
(* (backend/unified-llm-core.js).                                            *)

MaxStratRequests == 2  \* orchestration requests explored
MaxStratAgents == 2    \* agents of a request

notSess == <<cbVars, rlVars, cacheVars, grVars, last, par, seq, pipe, comp, seek, cons>>
notStrat == <<notSess, ws, cmem, meta, persist, adm>>

\* the state of the specifications above, unused by the ones below
BaseIdle ==
  /\ cb = NoBreaker /\ inflight = 0 /\ probes = 0 /\ consec = 0
  /\ rl = NoLimiter /\ admitted = <<>>
  /\ last = NoOp
  /\ CacheIdle /\ GRIdle
  /\ par = <<>> /\ seq = <<>> /\ pipe = <<>>
  /\ comp = <<>> /\ seek = <<>> /\ cons = <<>>

\* this.strategies of OrchestrationService, strategies of executeStrategy
ServiceStrategies ==
  [orchestration |-> {"parallel", "sequential", "consensus", "pipeline", "competitive"},
   unified |-> {"parallel", "sequential", "debate", "consensus", "specialist"}]

\* strategy names a request can carry; toString is a property every object
\* literal inherits, so strategies['toString'] is a function
StrategyNames ==
  ServiceStrategies.orchestration \cup ServiceStrategies.unified
    \cup {"round-robin", "toString"}

\* the function looked up for the name: this.strategies[strategy] in
\* orchestrate, strategies[strategy] || strategies.parallel in executeStrategy ("unknown" makes orchestrate throw)
StrategyLookup(service, strategy) ==
  IF strategy \in ServiceStrategies[service] THEN strategy
  ELSE IF strategy = "toString" THEN "Object.prototype.toString"
  ELSE IF service = "unified" THEN "parallel"
  ELSE "unknown"

\* agent calls the function makes in its first round
CallsStarted(fn, n) ==
  IF fn \in {"unknown", "Object.prototype.toString"} THEN 0
  ELSE IF fn \in {"sequential", "pipeline"} THEN Min(1, n)
  ELSE IF fn = "specialist" THEN Min(2, n)
  ELSE n

\* what the request settles to at once, if it does
ImmediateOutcome(fn) ==
  IF fn = "unknown" THEN Failure("Unknown orchestration strategy")
  ELSE IF fn = "Object.prototype.toString" THEN Response("[object Undefined]")
  ELSE NoResult

StratInit ==
  /\ now = 0
  /\ strat = <<>>
  /\ ws = <<>> /\ cmem = <<>> /\ meta = <<>> /\ persist = <<>> /\ adm = <<>>
  /\ BaseIdle

\* orchestrate(sessionId, agents, message, settings, strategy) or
\* executeStrategy(strategy, agents, message, context)
StratRequest ==
  \E service \in {"orchestration", "unified"}, name \in StrategyNames,
     n \in 1..MaxStratAgents :
    /\ Len(strat) < MaxStratRequests
    /\ LET fn == StrategyLookup(service, name)
       IN  strat' = Append(strat, [service |-> service, requested |-> name, ran |-> fn,
                                   calls |-> CallsStarted(fn, n),
                                   outcome |-> ImmediateOutcome(fn)])
    /\ UNCHANGED <<now, notStrat>>

StratNext == StratRequest

SpecStrat == StratInit /\ [][StratNext]_vars

(* Claim about strategy selection, checked under SpecStrat *)

\* C21: a request that names a strategy outside the supported set fails with
\* the unknown-strategy error and makes no agent call; it is never run under
\* another strategy.
C21_UnknownStrategyRejected ==
  \A i \in DOMAIN strat :
    strat[i].requested \notin ServiceStrategies[strat[i].service]
      => /\ strat[i].outcome = Failure("Unknown orchestration strategy")
         /\ strat[i].calls = 0
         /\ strat[i].ran = "unknown"

----------------------------------------------------------------------------
(* The client gateway: WebSocketService (backend/websocket-service.js).      *)
(* One segment of a handler between two waits is one action.                 *)

MaxWSInputs == 4  \* connections accepted and envelopes received, together

notWS == <<notSess, strat, cmem, meta, persist, adm>>

WSUsers == {"u1", "u2"}
WSSessions == {"s1", "s2"}
Missing == ""        \* a field the envelope does not carry

\* an event as the client receives it; fields the gateway does not set are Missing
WSEvent(c, type, recoverable, turn) ==
  [conn |-> c, type |-> type, recoverable |-> recoverable, isReconnection |-> Missing,
   turn |-> turn]

\* ws.send(JSON.stringify(ev)): nothing reaches a client whose socket is closed
WSSend(w, ev) ==
  IF w.conns[ev.conn].open THEN [w EXCEPT !.events = Append(@, ev)] ELSE w

\* new WebSocketService(server)
WSNew ==
  [conns |-> <<>>, clients |-> [u \in WSUsers |-> 0], conversations |-> <<>>,
   created |-> 0, turns |-> <<>>, received |-> 0, events |-> <<>>]

\* conversation.messages.push(m) on the conversation object the turn holds; an
\* object that start-conversation has replaced is no longer in this.conversations
WSPush(w, session, gen, m) ==
  IF session \in DOMAIN w.conversations /\ w.conversations[session].gen = gen
  THEN [w EXCEPT !.conversations[session].messages = Append(@, m)]
  ELSE w

\* this.conversations[sessionId] = {messages: [], ...}
WSCreate(w, session) ==
  [w EXCEPT !.created = @ + 1,
            !.conversations =
               (session :> [gen |-> w.created + 1, messages |-> <<>>])
                 @@ [x \in DOMAIN w.conversations \ {session} |-> w.conversations[x]]]

\* the catch (llmError) block of handleChatMessage, made to give the session up
WSOnLLMErrorFatal(w, i) ==
  LET t == w.turns[i]
      sent == WSSend(w, WSEvent(t.conn, "error", "false", i))
  IN  [sent EXCEPT !.turns[i].pc = "failed",
                   !.conns[t.conn].open = FALSE,
                   !.conns[t.conn].closedBy = "gateway",
                   !.conversations =
                      [x \in DOMAIN w.conversations \ {t.session} |-> w.conversations[x]]]

\* the catch (llmError) block of handleChatMessage
WSOnLLMError(w, i) ==
  LET t == w.turns[i]
      sent == WSSend(w, WSEvent(t.conn, "error", "true", i))
  IN  [sent EXCEPT !.turns[i].pc = "failed"]

\* handleChatMessage after generateResponse resolved
WSOnResponse(w, i) ==
  LET t == w.turns[i]
      stored == WSPush(w, t.session, t.gen, "assistant")
      sent == WSSend(stored, WSEvent(t.conn, "message", Missing, i))
  IN  [sent EXCEPT !.turns[i].pc = "succeeded"]

\* handleChatMessage up to await this.llmService.generateResponse(...)
WSHandleChat(w, c, session, message) ==
  LET i == Len(w.turns) + 1
      turn(pc, gen) == [conn |-> c, session |-> session, gen |-> gen, pc |-> pc]
  IN  IF session = Missing \/ message = Missing
      THEN WSSend([w EXCEPT !.turns = Append(@, turn("rejected", 0))],
                  WSEvent(c, "error", "false", i))
      ELSE LET ensured == IF session \in DOMAIN w.conversations THEN w
                          ELSE WSCreate(w, session)
               gen == ensured.conversations[session].gen
               pushed == WSPush(ensured, session, gen, "user")
           IN  [pushed EXCEPT !.turns = Append(@, turn("awaiting", gen))]

WSInit ==
  /\ now = 0
  /\ ws = WSNew
  /\ strat = <<>> /\ cmem = <<>> /\ meta = <<>> /\ persist = <<>> /\ adm = <<>>
  /\ BaseIdle

\* wss.on('connection') and handleConnection
WSConnect ==
  \E u \in WSUsers :
    /\ ws.received < MaxWSInputs
    /\ LET c == Len(ws.conns) + 1
           opened == [ws EXCEPT !.received = @ + 1,
                                !.conns = Append(@, [user |-> u, open |-> TRUE,
                                                     closedBy |-> "nobody"]),
                                !.clients[u] = c]
       IN  ws' = WSSend(opened, WSEvent(c, "connected", Missing, 0))
    /\ UNCHANGED <<now, notWS>>

\* the client closes its socket: ws.on('close')
WSClose ==
  \E c \in DOMAIN ws.conns :
    /\ ws.conns[c].open
    /\ ws' = [ws EXCEPT !.conns[c].open = FALSE, !.conns[c].closedBy = "client",
                        !.clients[ws.conns[c].user] = 0]
    /\ UNCHANGED <<now, notWS>>

\* ws.on('message') with a chat envelope: handleMessage, handleChatMessage
WSChat ==
  \E c \in DOMAIN ws.conns,
     env \in ((WSSessions \cup {Missing}) \X {"hi"}) \cup {<<"s1", Missing>>} :
    /\ ws.conns[c].open
    /\ ws.received < MaxWSInputs
    /\ ws' = WSHandleChat([ws EXCEPT !.received = @ + 1], c, env[1], env[2])
    /\ UNCHANGED <<now, notWS>>

\* ws.on('message') with a start-conversation envelope: startConversation
WSStartConversation ==
  \E c \in DOMAIN ws.conns, session \in WSSessions :
    /\ ws.conns[c].open
    /\ ws.received < MaxWSInputs
    /\ ws' = WSSend(WSCreate([ws EXCEPT !.received = @ + 1], session),
                    WSEvent(c, "conversation-start", Missing, 0))
    /\ UNCHANGED <<now, notWS>>

\* ws.on('message') with a get-status envelope or one of an unknown type
WSOther ==
  \E c \in DOMAIN ws.conns, type \in {"get-status", "ping"} :
    /\ ws.conns[c].open
    /\ ws.received < MaxWSInputs
    /\ ws' = WSSend([ws EXCEPT !.received = @ + 1],
                    IF type = "get-status" THEN WSEvent(c, "status", Missing, 0)
                    ELSE WSEvent(c, "error", Missing, 0))
    /\ UNCHANGED <<now, notWS>>

\* generateResponse settles and handleChatMessage runs to its end
WSSettle ==
  \E i \in DOMAIN ws.turns, ok \in BOOLEAN :
    /\ ws.turns[i].pc = "awaiting"
    /\ ws' = IF ok THEN WSOnResponse(ws, i) ELSE WSOnLLMError(ws, i)
    /\ UNCHANGED <<now, notWS>>

WSNext ==
  \/ WSConnect
  \/ WSClose
  \/ WSChat
  \/ WSStartConversation
  \/ WSOther
  \/ WSSettle

SpecWS == WSInit /\ [][WSNext]_vars

\* the call a turn awaits settles: generateResponse resolves or rejects
SpecWSFair == SpecWS /\ WF_vars(WSSettle)

(* Claims about the gateway, checked under SpecWS and SpecWSFair *)

\* the terminal events the client has received for chat turn i
TerminalEvents(i) ==
  {k \in DOMAIN ws.events :
     ws.events[k].turn = i /\ ws.events[k].type \in {"chat_complete", "error"}}

\* C22: every chat envelope the gateway receives eventually produces exactly
\* one terminal event on its connection, chat_complete or a single error
\* (a client that closed its socket receives nothing).
C22_ChatTerminates ==
  \A i \in 1..MaxWSInputs :
    (i \in DOMAIN ws.turns)
      ~> (/\ i \in DOMAIN ws.turns
          /\ \/ Cardinality(TerminalEvents(i)) = 1
             \/ ~ws.conns[ws.turns[i].conn].open)

\* C23: within one session chat turns are serialized: no two turns of the
\* same session are dispatched to the LLM service at the same time.
C23_TurnsSerialized ==
  \A i, j \in DOMAIN ws.turns :
    (i < j /\ ws.turns[i].session = ws.turns[j].session)
      => ~(ws.turns[i].pc = "awaiting" /\ ws.turns[j].pc = "awaiting")

\* the connected event of connection c
ConnectedEvent(c) ==
  CHOOSE k \in DOMAIN ws.events :
    ws.events[k].conn = c /\ ws.events[k].type = "connected"

\* C24: the connected event of a connection whose userId connected before
\* carries isReconnection true, that of a userId's first connection does not.
C24_ReconnectionFlag ==
  \A c \in DOMAIN ws.conns :
    LET before == \E b \in 1..(c - 1) : ws.conns[b].user = ws.conns[c].user
    IN  ws.events[ConnectedEvent(c)].isReconnection
          = (IF before THEN "true" ELSE Missing)

\* C25: when the LLM call of a chat turn failed, the client whose socket is
\* open has received an error event with recoverable true for the turn, the
\* gateway has not closed the connection and the session is still there.
C25_LLMFailureRecoverable ==
  \A i \in DOMAIN ws.turns :
    ws.turns[i].pc = "failed"
      => LET c == ws.turns[i].conn
         IN  /\ ws.conns[c].closedBy # "gateway"
             /\ ws.turns[i].session \in DOMAIN ws.conversations
             /\ ws.conns[c].open
                  => \E k \in DOMAIN ws.events :
                       /\ ws.events[k] = WSEvent(c, "error", "true", i)
                       /\ \A m \in DOMAIN ws.events :
                            ws.events[m].turn = i => m = k

\* a turn whose LLM call failed, on a connection that is still open
C25_Witness ==
  \E i \in DOMAIN ws.turns :
    /\ ws.turns[i].pc = "failed"
    /\ ws.conns[ws.turns[i].conn].open
    /\ \E k \in DOMAIN ws.events : ws.events[k] = WSEvent(ws.turns[i].conn, "error", "true", i)

----------------------------------------------------------------------------
(* Conversation memory: ConversationMemory.addMessage (unnamed/part_004).    *)
(* A message is represented by the topics extractTopics finds in it.         *)

MaxCmemMessages == 12  \* addMessage calls on the conversation

ContextWindowSize == 20  \* contextWindow.length > 20
DiscussedOver == 5       \* data.discussed > 5
DepthCap == 20           \* Math.min(5, depth + 0.2): 5 is reached after 20 additions
DepthOver3 == 10         \* the double 1 + 0.2 + ... + 0.2 first exceeds 3 after 10 additions

notCmem == <<notSess, strat, ws, meta, persist, adm>>

CmemTopics == {"memory", "ethics"}
CmemAgents == {"Claude", "GPT"}

\* new ConversationMemory(sessionId); a topic with discussed = 0 is not in the map
CmemNew ==
  [participants |-> [a \in CmemAgents |-> 0],
   topics |-> [t \in CmemTopics |-> [discussed |-> 0, additions |-> 0]],
   timeline |-> 0, contextWindow |-> 0, avoidedTopics |-> {}, lastTopics |-> {}]

\* the topic tracking update of addMessage for the topics of one message;
\* depth is 1 plus 0.2 per later mention, kept as the number of additions
CmemTrack(topics, mentioned) ==
  [t \in CmemTopics |->
     IF t \notin mentioned THEN topics[t]
     ELSE IF topics[t].discussed = 0 THEN [discussed |-> 1, additions |-> 0]
     ELSE [discussed |-> topics[t].discussed + 1,
           additions |-> Min(DepthCap, topics[t].additions + 1)]]

\* data.discussed > 5 && data.depth > 3
CmemHeavilyDiscussed(data) ==
  data.discussed > DiscussedOver /\ data.additions >= DepthOver3

\* a marking that keeps only the topics that became heavily discussed since
CmemMarkAvoidedReplacing(topics, avoided) ==
  {t \in CmemTopics : CmemHeavilyDiscussed(topics[t])} \ avoided

\* the loop over this.topics.entries() that ends addMessage
CmemMarkAvoided(topics, avoided) ==
  avoided \cup {t \in CmemTopics : CmemHeavilyDiscussed(topics[t])}

\* addMessage(agentId, message, metadata)
CmemAddMessage(m, agentId, mentioned) ==
  LET tracked == CmemTrack(m.topics, mentioned)
  IN  [participants |-> [m.participants EXCEPT ![agentId] = @ + 1],
       topics |-> tracked,
       timeline |-> m.timeline + 1,
       contextWindow |-> Min(ContextWindowSize, m.contextWindow + 1),
       avoidedTopics |-> CmemMarkAvoided(tracked, m.avoidedTopics),
       lastTopics |-> mentioned]

CmemInit ==
  /\ now = 0
  /\ cmem = CmemNew
  /\ strat = <<>> /\ ws = <<>> /\ meta = <<>> /\ persist = <<>> /\ adm = <<>>
  /\ BaseIdle

\* conversationMemory.addMessage(agentId, message)
CMAddMessage ==
  \E agentId \in CmemAgents, mentioned \in SUBSET CmemTopics :
    /\ cmem.timeline < MaxCmemMessages
    /\ cmem' = CmemAddMessage(cmem, agentId, mentioned)
    /\ UNCHANGED <<now, notCmem>>

CmemNext == CMAddMessage

SpecCmem == CmemInit /\ [][CmemNext]_vars

(* Claim about the conversation memory, checked under SpecCmem *)

\* C26: a topic that has entered avoidedTopics is still in avoidedTopics after
\* every later addMessage.
C26_AvoidedStays ==
  [][cmem.avoidedTopics \subseteq cmem'.avoidedTopics]_vars

\* a message that does not mention an avoided topic has been added
C26_Witness ==
  \E t \in cmem.avoidedTopics : t \notin cmem.lastTopics /\ cmem.timeline > 0

----------------------------------------------------------------------------
(* Meta memory: MetaMemory goals and shared understanding (unnamed/part_004). *)

MaxMetaCalls == 3  \* calls on the meta memory
MaxMetaTicks == 1  \* advances of Date.now() between calls

ProgressCap == 100  \* Math.min(100, progress), progress >= 100

notMeta == <<notSess, strat, ws, cmem, persist, adm>>

GoalTypes == {"shortTerm", "longTerm"}
ProgressInputs == {-10, 50, 100, 150}
FactTexts == {"water is wet", "fire is hot"}
Confidences == {60, 90}     \* confidence in percent
ConceptNames == {"entropy"}
Definitions == {"disorder", "missing information"}
Decisions == {"adopt plan"}
UnknownGoal == 0

\* new MetaMemory(); the id of a goal is its creation number, the log is
\* the sequence of shared records the callers have added so far
MetaNew ==
  [goals |-> <<>>, completed |-> <<>>, progress |-> <<>>,
   facts |-> <<>>, concepts |-> <<>>, decisions |-> <<>>,
   calls |-> 0, log |-> <<>>]

\* map.set(key, value) on a Map held as a function over its keys
MapSet(map, key, value) ==
  (key :> value) @@ [k \in DOMAIN map \ {key} |-> map[k]]

\* addGoal(goal, type): the goal lists are kept as one sequence in creation
\* order, the type of a goal telling its list
MetaAddGoal(m, type) ==
  LET id == Len(m.goals) + Len(m.completed) + 1
  IN  [m EXCEPT !.goals = Append(@, [id |-> id, type |-> type, status |-> "active"]),
                !.progress = MapSet(@, id, 0)]

\* updateGoalProgress(goalId, progress)
MetaUpdateGoalProgress(m, goalId, progress) ==
  LET stored == [m EXCEPT !.progress = MapSet(@, goalId, Min(ProgressCap, progress))]
      found == {i \in DOMAIN m.goals : m.goals[i].id = goalId}
  IN  IF progress >= ProgressCap /\ found # {}
      THEN LET i == CHOOSE x \in found : TRUE
           IN  [stored EXCEPT
                  !.completed = Append(@, [m.goals[i] EXCEPT !.status = "completed"]),
                  !.goals = SelectSeq(m.goals, LAMBDA g : g.id # goalId)]
      ELSE stored

\* addSharedFact(fact, confidence)
MetaAddSharedFact(m, fact, confidence, t) ==
  LET record == [confidence |-> confidence, timestamp |-> t]
  IN  [m EXCEPT !.facts = MapSet(@, fact, record),
                !.log = Append(@, [kind |-> "fact", key |-> fact, record |-> record])]

\* addSharedConcept(concept, definition)
MetaAddSharedConcept(m, concept, definition, t) ==
  LET record == [definition |-> definition, timestamp |-> t]
  IN  [m EXCEPT !.concepts = MapSet(@, concept, record),
                !.log = Append(@, [kind |-> "concept", key |-> concept, record |-> record])]

\* addDecision(decision, participants)
MetaAddDecision(m, decision, t) ==
  LET record == [decision |-> decision, timestamp |-> t]
  IN  [m EXCEPT !.decisions = Append(@, record),
                !.log = Append(@, [kind |-> "decision", key |-> decision, record |-> record])]

MetaInit ==
  /\ now = 0
  /\ meta = MetaNew
  /\ strat = <<>> /\ ws = <<>> /\ cmem = <<>> /\ persist = <<>> /\ adm = <<>>
  /\ BaseIdle

\* one more call on the meta memory
Called(m) == [m EXCEPT !.calls = @ + 1]

MTTick ==
  /\ now < MaxMetaTicks
  /\ now' = now + 1
  /\ UNCHANGED <<meta, notMeta>>

MTAddGoal ==
  \E type \in GoalTypes :
    /\ meta.calls < MaxMetaCalls
    /\ meta' = Called(MetaAddGoal(meta, type))
    /\ UNCHANGED <<now, notMeta>>

MTUpdateGoalProgress ==
  \E goalId \in DOMAIN meta.progress \cup {UnknownGoal}, progress \in ProgressInputs :
    /\ meta.calls < MaxMetaCalls
    /\ meta' = Called(MetaUpdateGoalProgress(meta, goalId, progress))
    /\ UNCHANGED <<now, notMeta>>

MTAddSharedFact ==
  \E fact \in FactTexts, confidence \in Confidences :
    /\ meta.calls < MaxMetaCalls
    /\ meta' = Called(MetaAddSharedFact(meta, fact, confidence, now))
    /\ UNCHANGED <<now, notMeta>>

MTAddSharedConcept ==
  \E concept \in ConceptNames, definition \in Definitions :
    /\ meta.calls < MaxMetaCalls
    /\ meta' = Called(MetaAddSharedConcept(meta, concept, definition, now))
    /\ UNCHANGED <<now, notMeta>>

MTAddDecision ==
  \E decision \in Decisions :
    /\ meta.calls < MaxMetaCalls
    /\ meta' = Called(MetaAddDecision(meta, decision, now))
    /\ UNCHANGED <<now, notMeta>>

MetaNext ==
  \/ MTTick
  \/ MTAddGoal
  \/ MTUpdateGoalProgress
  \/ MTAddSharedFact
  \/ MTAddSharedConcept
  \/ MTAddDecision

SpecMeta == MetaInit /\ [][MetaNext]_vars

(* Claims about the meta memory, checked under SpecMeta *)

\* C27: whatever percentage updateGoalProgress is given, the progress it
\* stores for a goal lies between 0 and 100.
C27_ProgressClamped ==
  \A id \in DOMAIN meta.progress :
    meta.progress[id] >= 0 /\ meta.progress[id] <= ProgressCap

\* the records the shared understanding holds for one kind
SharedRecords(kind) ==
  IF kind = "fact" THEN {<<k, meta.facts[k]>> : k \in DOMAIN meta.facts}
  ELSE IF kind = "concept" THEN {<<k, meta.concepts[k]>> : k \in DOMAIN meta.concepts}
  ELSE {<<meta.decisions[i].decision, meta.decisions[i]>> : i \in DOMAIN meta.decisions}

\* the number of records the shared understanding holds for one kind
SharedCount(kind) ==
  IF kind = "fact" THEN Cardinality(DOMAIN meta.facts)
  ELSE IF kind = "concept" THEN Cardinality(DOMAIN meta.concepts)
  ELSE Len(meta.decisions)

\* C29: addSharedFact, addSharedConcept and addDecision are append-only: every
\* call has added one record, and every record added so far is still there
\* unaltered, also when the same fact text or concept name was added again.
C29_SharedAppendOnly ==
  \A kind \in {"fact", "concept", "decision"} :
    LET added == {i \in DOMAIN meta.log : meta.log[i].kind = kind}
    IN  /\ SharedCount(kind) = Cardinality(added)
        /\ \A i \in added : <<meta.log[i].key, meta.log[i].record>> \in SharedRecords(kind)

----------------------------------------------------------------------------
(* Persistence: ModelMemory.toJSON / fromJSON and                            *)
(* EnhancedMemorySystem.saveMemories / loadMemories (unnamed/part_004).      *)
(* Rates and Q-values are kept in thousandths.                                *)

MaxPersistOps == 3  \* updates of the memories before and between saves

Thousandth == 1000
LearningRate == 100     \* learningRate: 0.1
DiscountFactor == 900   \* discountFactor: 0.9
ExplorationRate == 100  \* explorationRate: 0.1

notPersist == <<notSess, strat, ws, cmem, meta, adm>>

TraitNames == {"curious", "bold"}
TraitValues == {"very", "barely"}
RLActions == {"greet", "joke"}
Rewards == {1, -1}

\* new ModelMemory(agentId, agentName)
ModelNew ==
  [traits |-> <<>>, qTable |-> <<>>, rewards |-> 0, punishments |-> 0,
   learningRate |-> LearningRate, discountFactor |-> DiscountFactor,
   explorationRate |-> ExplorationRate]

\* addTrait(trait, value)
ModelAddTrait(mm, trait, value, t) ==
  [mm EXCEPT !.traits = MapSet(@, trait, [value |-> value, timestamp |-> t])]

\* updateQValue(state, action, reward) for the state 'default'
UpdateQValue(mm, action, reward) ==
  LET currentQ == IF action \in DOMAIN mm.qTable THEN mm.qTable[action] ELSE 0
      maxNextQ == Max({0} \cup {mm.qTable[k] : k \in DOMAIN mm.qTable})
      target == reward * Thousandth + (mm.discountFactor * maxNextQ) \div Thousandth
      newQ == currentQ + (mm.learningRate * (target - currentQ)) \div Thousandth
  IN  [mm EXCEPT !.qTable = MapSet(@, action, newQ)]

\* applyReinforcement(action, reward)
ModelApplyReinforcement(mm, action, reward) ==
  UpdateQValue(IF reward > 0 THEN [mm EXCEPT !.rewards = @ + 1]
               ELSE [mm EXCEPT !.punishments = @ + 1], action, reward)

\* Array.from(map.entries())
Entries(map) == {<<k, map[k]>> : k \in DOMAIN map}

\* new Map(entries)
MapOf(entries) ==
  [k \in {e[1] : e \in entries} |-> (CHOOSE e \in entries : e[1] = k)[2]]

\* JSON.stringify writes a Map as the object {}; Object.entries({}) is empty
StringifiedMap(map) == {}

\* ModelMemory.toJSON() as JSON.stringify writes it
ModelToJSON(mm) ==
  [traits |-> Entries(mm.traits), qTable |-> Entries(mm.qTable),
   rewards |-> mm.rewards, punishments |-> mm.punishments,
   learningRate |-> mm.learningRate]

\* ModelMemory.fromJSON(data)
ModelFromJSON(data) ==
  [ModelNew EXCEPT !.traits = MapOf(data.traits), !.qTable = MapOf(data.qTable),
                   !.rewards = data.rewards, !.punishments = data.punishments,
                   !.learningRate = IF data.learningRate = 0 THEN LearningRate
                                    ELSE data.learningRate]

\* the meta-memory.json document saveMemories writes
MetaToJSON(m) ==
  [goals |-> m.goals, completed |-> m.completed, progress |-> StringifiedMap(m.progress),
   facts |-> Entries(m.facts), concepts |-> Entries(m.concepts),
   decisions |-> m.decisions]

\* the meta memory loadMemories builds from meta-memory.json
MetaFromJSON(doc) ==
  [goals |-> doc.goals, completed |-> doc.completed, progress |-> MapOf(doc.progress),
   facts |-> MapOf(doc.facts), concepts |-> MapOf(doc.concepts),
   decisions |-> doc.decisions, calls |-> 0, log |-> <<>>]

NoFile == <<>>
NoMemory == <<>>

PersistInit ==
  /\ now = 0
  /\ persist = [mm |-> ModelNew, mt |-> MetaNew, ops |-> 0, pc |-> "idle",
                modelFile |-> NoFile, metaFile |-> NoFile,
                savedModel |-> NoMemory, savedMeta |-> NoMemory,
                loadedModel |-> NoMemory, loadedMeta |-> NoMemory]
  /\ strat = <<>> /\ ws = <<>> /\ cmem = <<>> /\ meta = <<>> /\ adm = <<>>
  /\ BaseIdle

\* one more update of the memories
Updated(mm, mt) == [persist EXCEPT !.mm = mm, !.mt = mt, !.ops = @ + 1]

PEAddTrait ==
  \E trait \in TraitNames, value \in TraitValues :
    /\ persist.ops < MaxPersistOps
    /\ persist' = Updated(ModelAddTrait(persist.mm, trait, value, persist.ops), persist.mt)
    /\ UNCHANGED <<now, notPersist>>

PEApplyReinforcement ==
  \E action \in RLActions, reward \in Rewards :
    /\ persist.ops < MaxPersistOps
    /\ persist' = Updated(ModelApplyReinforcement(persist.mm, action, reward), persist.mt)
    /\ UNCHANGED <<now, notPersist>>

PEAddGoal ==
  \E type \in GoalTypes :
    /\ persist.ops < MaxPersistOps
    /\ persist' = Updated(persist.mm, MetaAddGoal(persist.mt, type))
    /\ UNCHANGED <<now, notPersist>>

PEUpdateGoalProgress ==
  \E goalId \in DOMAIN persist.mt.progress, progress \in {50, 100} :
    /\ persist.ops < MaxPersistOps
    /\ persist' = Updated(persist.mm, MetaUpdateGoalProgress(persist.mt, goalId, progress))
    /\ UNCHANGED <<now, notPersist>>

PEAddSharedFact ==
  \E fact \in FactTexts :
    /\ persist.ops < MaxPersistOps
    /\ persist' = Updated(persist.mm, MetaAddSharedFact(persist.mt, fact, 90, persist.ops))
    /\ UNCHANGED <<now, notPersist>>

\* saveMemories up to the first write: model-memories.json
PESaveModel ==
  /\ persist.pc = "idle"
  /\ persist' = [persist EXCEPT !.pc = "saving",
                                !.modelFile = ModelToJSON(persist.mm),
                                !.savedModel = persist.mm]
  /\ UNCHANGED <<now, notPersist>>

\* saveMemories after the conversation file: meta-memory.json
PESaveMeta ==
  /\ persist.pc = "saving"
  /\ persist' = [persist EXCEPT !.pc = "idle",
                                !.metaFile = MetaToJSON(persist.mt),
                                !.savedMeta = [persist.mt EXCEPT !.log = <<>>, !.calls = 0]]
  /\ UNCHANGED <<now, notPersist>>

\* loadMemories of a system started on the files
PELoad ==
  /\ persist.pc = "idle"
  /\ persist.modelFile # NoFile /\ persist.metaFile # NoFile
  /\ persist' = [persist EXCEPT !.loadedModel = ModelFromJSON(persist.modelFile),
                                !.loadedMeta = MetaFromJSON(persist.metaFile)]
  /\ UNCHANGED <<now, notPersist>>

PersistNext ==
  \/ PEAddTrait
  \/ PEApplyReinforcement
  \/ PEAddGoal
  \/ PEUpdateGoalProgress
  \/ PEAddSharedFact
  \/ PESaveModel
  \/ PESaveMeta
  \/ PELoad

SpecPersist == PersistInit /\ [][PersistNext]_vars

(* Claim about persistence, checked under SpecPersist *)

\* the memories were loaded from the files of the latest save
LoadedLatest ==
  /\ persist.loadedModel # NoMemory
  /\ persist.loadedModel = ModelFromJSON(persist.modelFile)
  /\ persist.loadedMeta = MetaFromJSON(persist.metaFile)

\* C28: saving Model Memory and Meta Memory and loading them again yields the
\* saved state: traits, Q-table, learning parameters, goal lists, goal
\* progress map and shared understanding are those that were saved.
C28_RoundTrip ==
  LoadedLatest
    => /\ persist.loadedModel = persist.savedModel
       /\ persist.loadedMeta = persist.savedMeta

----------------------------------------------------------------------------
(* Rate-limiter admissions and provider calls of generateResponse with tools *)
(* (backend/llm-service.js): one call at a time on the model gpt-4o, whose   *)
(* adapter is generateOpenAIResponse.                                        *)

MaxAdmRequests == 4  \* generateResponse calls
MaxAdmTicks == 2     \* advances of the clock, of TickMs each

notAdm == <<notSess, strat, ws, cmem, meta, persist>>

AdmModel == "gpt-4o"
AdmOutcomes == {200, 503}  \* HTTP outcome of one chat.completions.create

\* no generateResponse call yet: the model's breaker and the OpenAI limiter
AdmNew ==
  [pc |-> "idle", tools |-> FALSE, i |-> 0, admissions |-> 0, calls |-> <<>>,
   breaker |-> CBNew(FALSE), rl |-> RLNew(OpenAIRpm, 0), requests |-> 0,
   result |-> NoResult]

\* the wrapped function settles with result r: execute records it on the breaker
AdmDone(a, r) ==
  [a EXCEPT !.pc = "done", !.result = r,
            !.breaker = IF r.kind = "response" THEN CBOnSuccess(a.breaker)
                        ELSE CBOnFailure(a.breaker, now)]

\* a provider call fails with HTTP status http on attempt a.i of retryWithBackoff
AdmOnError(a, http) ==
  LET e == MapProviderError("openai", RawError("openai", http))
  IN  IF RetryDecision(a.i, e) = "throw" THEN AdmDone(a, Failure(e.name))
      ELSE [a EXCEPT !.pc = "backoff"]

\* client.chat.completions.create(...) is sent
AdmCall(a, kind) == [a EXCEPT !.pc = kind, !.calls = Append(@, kind)]

\* generateResponse up to the first provider call: breaker, checkLimit,
\* context window check, first attempt of retryWithBackoff
AdmStart(a, tools) ==
  LET a0 == [a EXCEPT !.tools = tools, !.i = 0, !.admissions = 0, !.calls = <<>>,
                      !.requests = @ + 1, !.result = NoResult]
      a1 == [a0 EXCEPT !.breaker = CBEnter(a.breaker, now),
                       !.rl = RLCheckLimit(a.rl, now)]
  IN  IF CBRefuses(a.breaker, now) THEN [a0 EXCEPT !.pc = "done", !.result = Failure("CircuitOpen")]
      ELSE IF RLVerdict(a.rl, now) = "throw" THEN AdmDone(a1, Failure("RateLimitExceeded"))
      ELSE IF EstimateTokenCount(OrchChars) > GetModelConfig(AdmModel).contextWindow
      THEN AdmDone([a1 EXCEPT !.admissions = 1], Failure("ContextWindowExceededError"))
      ELSE AdmCall([a1 EXCEPT !.admissions = 1], "first")

AdmInit ==
  /\ now = 0
  /\ adm = AdmNew
  /\ strat = <<>> /\ ws = <<>> /\ cmem = <<>> /\ meta = <<>> /\ persist = <<>>
  /\ BaseIdle

\* generateResponse(agentConfig, messages, apiKey, {enableTools})
ADStart ==
  \E tools \in BOOLEAN :
    /\ adm.pc \in {"idle", "done"}
    /\ adm.requests < MaxAdmRequests
    /\ adm' = AdmStart(adm, tools)
    /\ UNCHANGED <<now, notAdm>>

ADTick ==
  /\ now < MaxAdmTicks * TickMs
  /\ now' = now + TickMs
  /\ UNCHANGED <<adm, notAdm>>

\* the first create call of generateOpenAIResponse settles (the call of a
\* retry attempt likewise) and a response with tool calls starts the tools,
\* or the backoff timer fires and the next attempt sends its call
ADSettle ==
  \E http \in AdmOutcomes, toolCalls \in BOOLEAN :
    /\ adm.pc \in {"first", "retry", "backoff"}
    /\ toolCalls => (http = 200 /\ adm.tools)
    /\ adm' = IF adm.pc = "backoff" THEN AdmCall([adm EXCEPT !.i = @ + 1], "retry")
              ELSE IF http # 200 THEN AdmOnError(adm, http)
              ELSE IF toolCalls THEN [adm EXCEPT !.pc = "tools"]
              ELSE AdmDone(adm, Response(AdmModel))
    /\ UNCHANGED <<now, notAdm>>

\* the tools have run: generateOpenAIResponse makes its second create call
ADToolsDone ==
  /\ adm.pc = "tools"
  /\ adm' = AdmCall(adm, "followup")
  /\ UNCHANGED <<now, notAdm>>

\* the second create call settles
ADFollowupSettle ==
  \E http \in AdmOutcomes :
    /\ adm.pc = "followup"
    /\ adm' = IF http = 200 THEN AdmDone(adm, Response(AdmModel))
              ELSE AdmOnError(adm, http)
    /\ UNCHANGED <<now, notAdm>>

AdmNext ==
  \/ ADTick
  \/ ADStart
  \/ ADSettle
  \/ ADToolsDone
  \/ ADFollowupSettle

SpecAdm == AdmInit /\ [][AdmNext]_vars

(* Claim about admissions, checked under SpecAdm *)

\* C30: every provider call made for a generateResponse call is preceded by
\* its own successful rate-limiter admission: the call has never sent more
\* provider calls than it has obtained admissions.
C30_EveryCallAdmitted ==
  Len(adm.calls) <= adm.admissions

----------------------------------------------------------------------------
(* generateResponse on a limiter that has used up its minute: the OpenAI     *)
(* limiter after requestsPerMinute admitted calls in one millisecond.        *)

\* the limiter after n checkLimit calls in the millisecond t of its creation,
\* n from BurstSize to requestsPerMinute: the first BurstSize calls take the
\* tokens, the others are admitted on the count of the window
RLAfterBurst(requestsPerMinute, n, t) ==
  [limit |-> requestsPerMinute, tokens |-> 0, lastRefill |-> t,
   requests |-> [i \in 1..n |-> t]]

\* every call of the window has been admitted, the next one is rejected
RLSaturated == RLAfterBurst(OpenAIRpm, OpenAIRpm, 0)

GRSatInit ==
  /\ now = 0
  /\ breakers = [m \in GRSupported |-> CBNew(FALSE)]
  /\ rl = RLSaturated
  /\ \E e \in BOOLEAN : cache = CacheNew(e)
  /\ gr = GRFresh
  /\ grCount = 0
  /\ last = NoOp
  /\ cb = NoBreaker /\ inflight = 0 /\ probes = 0 /\ consec = 0
  /\ admitted = <<>> /\ lastSet = <<>> /\ evicted = {}
  /\ OrchIdle

SpecGRSat == GRSatInit /\ [][GRNext]_vars

(* Claims about the order of admission, breaker and context window check,   *)
(* checked under SpecGRSat and SpecGR                                        *)

\* C31: a generateResponse call that the rate limiter rejects leaves the
\* state and the failure count of every model breaker unchanged.
C31_RateLimitSparesBreaker ==
  [][(grCount' = grCount + 1 /\ gr'.result = Failure("RateLimitExceeded"))
       => breakers' = breakers]_vars

\* C32: a generateResponse call that fails with ContextWindowExceeded has
\* taken no token from the provider's bucket and has recorded no request in
\* the limiter.
C32_ContextCheckSparesLimiter ==
  [][(grCount' = grCount + 1 /\ gr'.result = Failure("ContextWindowExceededError"))
       => (rl'.tokens = RLRefill(rl, now) /\ rl'.requests = rl.requests)]_vars

(* Claim about the size of the cache, checked under SpecCache *)

\* C33: after any sequence of set and get operations, also several in one
\* millisecond, the cache holds at most maxSize entries.
C33_CacheBounded ==
  Len(cache.keys) <= CacheMaxSize

(* Claim about the consensus loop, checked under SpecConsFair *)

MaxLoopAgents == 2     \* agents of an orchestration whose loop is followed to its end

\* an orchestration over a small agent list starts
CLStart == CNStart /\ cons'.n <= MaxLoopAgents

ConsLoopNext == CLStart \/ CNIteration

\* every processMessage call of a round settles, so Promise.all resolves
SpecConsFair == ConsInit /\ [][ConsLoopNext]_vars /\ WF_vars(CNIteration)

\* the rounds of the current run that have been dispatched
ConsRounds == cons.iterations + (IF cons.pc = "waiting" THEN 1 ELSE 0)

\* C34: the consensus strategy always terminates: it dispatches at most
\* maxIterations rounds, each calling every agent once, goes on only while no
\* round has found consensus, and returns after the first round that found
\* consensus or after the fifth.
C34_ConsensusTerminates ==
  /\ [](/\ ConsRounds <= MaxIterations
        /\ cons.dispatched = cons.n * ConsRounds
        /\ cons.pc = "waiting" => ~cons.consensusReached
        /\ cons.pc = "returned" => (cons.consensusReached \/ cons.iterations = MaxIterations))
  /\ (cons.pc = "waiting") ~> (cons.pc = "returned")

\* the strategy has returned after the fifth round without consensus
C34_Witness ==
  /\ cons.pc = "returned"
  /\ cons.iterations = MaxIterations
  /\ ~cons.consensusReached
  /\ cons.dispatched = cons.n * MaxIterations

(* ---------------------------------------------------------------------- *)
(* Q-learning over several states: ModelMemory.updateQValue (SpecQ)        *)
(* ---------------------------------------------------------------------- *)

MaxQUpdates == 3       \* applyReinforcement calls explored

\* strings as sequences of characters; no name holds the separator ':'
QStates == {<<"a">>, <<"a", "b">>}
QActions == {<<"x">>, <<"y">>}

\* `${state}:${action}`
QKey(state, action) == state \o <<":">> \o action

\* k.startsWith(state)
StartsWith(k, state) == Len(k) >= Len(state) /\ SubSeq(k, 1, Len(state)) = state

\* updateQValue(state, action, reward)
UpdateQValueIn(mm, state, action, reward) ==
  LET key == QKey(state, action)
      currentQ == IF key \in DOMAIN mm.qTable THEN mm.qTable[key] ELSE 0
      nextStateActions == {k \in DOMAIN mm.qTable : StartsWith(k, state)}
      maxNextQ == Max({0} \cup {mm.qTable[k] : k \in nextStateActions})
      target == reward * Thousandth + (mm.discountFactor * maxNextQ) \div Thousandth
      newQ == currentQ + (mm.learningRate * (target - currentQ)) \div Thousandth
  IN  [mm EXCEPT !.qTable = MapSet(@, key, newQ)]

\* applyReinforcement(action, reward, state)
ModelApplyReinforcementIn(mm, action, reward, state) ==
  UpdateQValueIn(IF reward > 0 THEN [mm EXCEPT !.rewards = @ + 1]
                 ELSE [mm EXCEPT !.punishments = @ + 1], state, action, reward)

NoUpdate == <<>>

QInit ==
  /\ now = 0
  /\ persist = [mm |-> ModelNew, ops |-> 0, last |-> NoUpdate]
  /\ strat = <<>> /\ ws = <<>> /\ cmem = <<>> /\ meta = <<>> /\ adm = <<>>
  /\ BaseIdle

QLApplyReinforcement ==
  \E state \in QStates, action \in QActions, reward \in Rewards :
    /\ persist.ops < MaxQUpdates
    /\ persist' = [mm |-> ModelApplyReinforcementIn(persist.mm, action, reward, state),
                   ops |-> persist.ops + 1,
                   last |-> [state |-> state, action |-> action, reward |-> reward,
                             before |-> persist.mm.qTable]]
    /\ UNCHANGED <<now, notPersist>>

QNext == QLApplyReinforcement

SpecQ == QInit /\ [][QNext]_vars

\* the Q-table cut down to the entries of one state
OwnEntries(qTable, state) ==
  [k \in {QKey(state, a) : a \in QActions} \cap DOMAIN qTable |-> qTable[k]]

\* C35: the update of Q[state, action] takes maxNextQ over exactly the entries
\* of the given state, so the entries of other states have no influence: the
\* new value is the one the same update gives on a table that holds the
\* entries of the given state only.
C35_OtherStatesIgnored ==
  persist.last # NoUpdate =>
    LET u == persist.last
        key == QKey(u.state, u.action)
        alone == [ModelNew EXCEPT !.qTable = OwnEntries(u.before, u.state)]
    IN  persist.mm.qTable[key] =
          UpdateQValueIn(alone, u.state, u.action, u.reward).qTable[key]

(* Claims about the gateway's sessions and registry, checked under SpecWS *)

\* sequence a is an initial part of sequence b
IsPrefix(a, b) == Len(a) <= Len(b) /\ SubSeq(b, 1, Len(a)) = a

\* C36: once a session exists its stored turns are retained: no gateway
\* message, a start-conversation envelope with the same sessionId included,
\* discards or resets them (the gateway has no operation that closes or
\* expires a session).
C36_TurnsRetained ==
  [][\A s \in DOMAIN ws.conversations :
       /\ s \in DOMAIN ws'.conversations
       /\ IsPrefix(ws.conversations[s].messages, ws'.conversations[s].messages)]_vars

\* connection c is the one its user opened last
IsLatestOf(c) == \A d \in DOMAIN ws.conns : ws.conns[d].user = ws.conns[c].user => d <= c

\* C38: the registry maps each user to the most recent open connection: the
\* connection a user opened last stays registered while it is open, also when
\* the close event of an older connection of that user is handled after it
\* was registered.
C38_LatestStaysRegistered ==
  \A c \in DOMAIN ws.conns :
    (ws.conns[c].open /\ IsLatestOf(c)) => ws.clients[ws.conns[c].user] = c

(* ---------------------------------------------------------------------- *)
(* UnifiedAgent: processMessage and generateResponseWithFallback (SpecAgent)*)
(* ---------------------------------------------------------------------- *)

MaxAgentCalls == 4     \* processMessage calls explored
MaxAgentTicks == 1     \* clock steps explored by the agent specification
FallbackConfidence == 3   \* fallbackResponse: confidence 0.3, in tenths
DefaultConfidence == 7    \* response[0].confidence || 0.7, in tenths

notAgent == <<notSess, ws, cmem, meta, persist, adm>>

\* [this.model, ...this.fallbackChain] of an agent whose model is gpt-4o
ModelsToTry == <<"gpt-4o", "o1-preview", "o1-mini">>

\* what the provider call behind one orchestrate call ends with: a reply, or an
\* error with this message
AuthMessages == {"authentication failed", "Invalid API key"}
AgentOutcomes == {"ok", "Service unavailable"} \cup AuthMessages

\* error.message.includes('authentication') || error.message.includes('API key')
IsAuthError(message) == message \in AuthMessages

AllFailed == "All models in fallback chain failed"
NoError == "none"

\* orchestrationService.orchestrate(sessionId, [agent], message, settings): no
\* fifth argument, so the parallel strategy runs and turns the agent's error
\* into a result with success false
Orchestrate(outcome) ==
  IF outcome = "ok"
  THEN [threw |-> FALSE, error |-> NoError, success |-> TRUE]
  ELSE [threw |-> FALSE, error |-> outcome, success |-> FALSE]

\* fallbackResponse(message, context)
FallbackResponse ==
  [model |-> "fallback", confidence |-> FallbackConfidence, intention |-> "acknowledge"]

AgentNew ==
  [cb |-> CBNew(TRUE), pc |-> "idle", calls |-> 0, ticks |-> 0, tried |-> <<>>,
   lastError |-> NoError, log |-> <<>>]

\* processMessage has settled
UASettled(a, settled, generation, error, response) ==
  [a EXCEPT !.pc = "idle",
            !.log = Append(@, [settled |-> settled, generation |-> generation,
                               error |-> error, response |-> response])]

\* a catch block of processMessage that hands the error on
UAOnErrorRethrowing(a, error) ==
  UASettled(a, "rejected", "failed", error, FallbackResponse)

\* the catch block of processMessage: updateMetrics, fallbackResponse
UAOnError(a, error) ==
  UASettled(a, "resolved", "failed", error, FallbackResponse)

\* generateResponseWithFallback threw: execute counts a failure and rethrows
UAGenerationFailed(a, error, t) ==
  UAOnError([a EXCEPT !.cb = CBOnFailure(@, t)], error)

\* generateResponseWithFallback returned: execute counts a success, processMessage
\* updates metrics and memory and returns the response
UAGenerationDone(a, model) ==
  UASettled([a EXCEPT !.cb = CBOnSuccess(@)], "resolved", "ok", NoError,
            [model |-> model, confidence |-> DefaultConfidence, intention |-> "answer"])

\* one turn of the for loop of generateResponseWithFallback, given what
\* orchestrate did for the model tried
FallbackStep(a, r, t) ==
  LET model == ModelsToTry[Len(a.tried)]
      lastError == IF r.threw THEN r.error ELSE a.lastError
      a1 == [a EXCEPT !.lastError = lastError]
  IN  IF ~r.threw /\ r.success THEN UAGenerationDone(a1, model)
      ELSE IF r.threw /\ IsAuthError(r.error) THEN UAGenerationFailed(a1, r.error, t)
      ELSE IF Len(a.tried) < Len(ModelsToTry) THEN a1
      ELSE UAGenerationFailed(a1, IF lastError # NoError THEN lastError ELSE AllFailed, t)

AgentInit ==
  /\ now = 0
  /\ strat = AgentNew
  /\ ws = <<>> /\ cmem = <<>> /\ meta = <<>> /\ persist = <<>> /\ adm = <<>>
  /\ BaseIdle

UATick ==
  /\ strat.ticks < MaxAgentTicks
  /\ now' = now + ResetTimeout
  /\ strat' = [strat EXCEPT !.ticks = @ + 1]
  /\ UNCHANGED notAgent

\* processMessage(message, context) up to the breaker: an open breaker answers
\* with its fallbackFunction, otherwise the first model is tried
UAProcessMessage ==
  /\ strat.pc = "idle"
  /\ strat.calls < MaxAgentCalls
  /\ LET a == [strat EXCEPT !.calls = @ + 1, !.tried = <<>>, !.lastError = NoError]
     IN  strat' = IF CBRefuses(a.cb, now)
                  THEN UASettled(a, "resolved", "refused", NoError, FallbackResponse)
                  ELSE [a EXCEPT !.cb = CBEnter(@, now), !.pc = "trying"]
  /\ UNCHANGED <<now, notAgent>>

\* the orchestrate call for the next model settles
UAModelSettles ==
  \E outcome \in AgentOutcomes :
    /\ strat.pc = "trying"
    /\ LET model == ModelsToTry[Len(strat.tried) + 1]
           a == [strat EXCEPT !.tried = Append(@, [model |-> model, outcome |-> outcome])]
       IN  strat' = FallbackStep(a, Orchestrate(outcome), now)
    /\ UNCHANGED <<now, notAgent>>

AgentNext == UATick \/ UAProcessMessage \/ UAModelSettles

SpecAgent == AgentInit /\ [][AgentNext]_vars

\* C37: the models are tried in the order primary, then fallback chain, a
\* next one only after the one before failed, and all of them before the
\* generation fails; but an authentication or API-key failure stops the chain
\* at once: no further model is tried and that error is the one that propagates.
C37_AuthStopsChain ==
  /\ \A i \in DOMAIN strat.tried :
       /\ strat.tried[i].model = ModelsToTry[i]
       /\ i < Len(strat.tried) => strat.tried[i].outcome # "ok"
       /\ i < Len(strat.tried) => ~IsAuthError(strat.tried[i].outcome)
  /\ (strat.pc = "idle" /\ strat.tried # <<>>) =>
       LET final == strat.tried[Len(strat.tried)].outcome
           e == strat.log[Len(strat.log)]
       IN  /\ IsAuthError(final) => (e.generation = "failed" /\ e.error = final)
           /\ e.generation = "failed" =>
                (IsAuthError(final) \/ Len(strat.tried) = Len(ModelsToTry))

\* C39: processMessage never rejects, and when the generation failed (every
\* model failed, or the agent's breaker refused the call) it resolves with the
\* canned fallback response: model 'fallback', confidence 0.3.
C39_NeverRejects ==
  \A i \in DOMAIN strat.log :
    /\ strat.log[i].settled = "resolved"
    /\ strat.log[i].generation # "ok" =>
         /\ strat.log[i].response.model = "fallback"
         /\ strat.log[i].response.confidence = FallbackConfidence

\* one call failed on every model and a later one was refused by the open breaker
C39_Witness ==
  \E i, j \in DOMAIN strat.log :
    /\ i < j
    /\ strat.log[i].generation = "failed" /\ strat.log[i].error = AllFailed
    /\ strat.log[j].generation = "refused"
    /\ strat.log[j].settled = "resolved"

(* ---------------------------------------------------------------------- *)
(* OrchestrationService: the orchestrations map and cleanup (SpecOrchMap)  *)
(* ---------------------------------------------------------------------- *)

MaxOMStarts == 3       \* orchestrate calls explored
MaxOMTicks == 3        \* clock steps explored by the orchestrations map specification
OMTickMs == 1800000    \* clock granularity of the orchestrations map specification
DefaultMaxAge == 3600000   \* cleanup(maxAge = 3600000)

notOrchMap == <<notSess, strat, ws, cmem, meta, persist>>

OMSession == "s1"
MaxAges == {DefaultMaxAge, OMTickMs}

\* `${sessionId}-${Date.now()}`
OrchestrationId(session, t) == <<session, t>>

\* this.orchestrations.set(orchestrationId, {..., startTime, status: 'running'});
\* finishedAt is the time the orchestration ended, which the record itself
\* holds only as endTime
OMSet(map, id, t) ==
  (id :> [status |-> "running", startTime |-> t, endTime |-> NoTime, finishedAt |-> NoTime])
    @@ [x \in DOMAIN map \ {id} |-> map[x]]

\* orchestrate, lines 45-48: the strategy returned
OMCompleted(map, id, t) ==
  IF id \in DOMAIN map
  THEN [map EXCEPT ![id].status = "completed", ![id].endTime = t, ![id].finishedAt = t]
  ELSE map

\* orchestrate, lines 59-61: the strategy threw
OMFailed(map, id, t) ==
  IF id \in DOMAIN map
  THEN [map EXCEPT ![id].status = "failed", ![id].finishedAt = t]
  ELSE map

\* cleanup(maxAge)
OMCleaned(map, maxAge, t) ==
  LET old == {id \in DOMAIN map :
                map[id].endTime # NoTime /\ map[id].endTime # 0
                  /\ t - map[id].endTime > maxAge}
  IN  [id \in DOMAIN map \ old |-> map[id]]

NoCleanup == NoTime

\* Date.now() is positive all along
OrchMapInit ==
  /\ now = OMTickMs
  /\ adm = [orchestrations |-> <<>>, running |-> <<>>, starts |-> 0, ticks |-> 0,
            cleanedWith |-> NoCleanup]
  /\ strat = <<>> /\ ws = <<>> /\ cmem = <<>> /\ meta = <<>> /\ persist = <<>>
  /\ BaseIdle

OMTick ==
  /\ adm.ticks < MaxOMTicks
  /\ now' = now + OMTickMs
  /\ adm' = [adm EXCEPT !.ticks = @ + 1, !.cleanedWith = NoCleanup]
  /\ UNCHANGED notOrchMap

\* orchestrate(sessionId, agents, message, settings, strategy) up to its await
OMOrchestrate ==
  /\ adm.starts < MaxOMStarts
  /\ LET id == OrchestrationId(OMSession, now)
     IN  adm' = [adm EXCEPT !.starts = @ + 1, !.cleanedWith = NoCleanup,
                            !.running = Append(@, id),
                            !.orchestrations = OMSet(@, id, now)]
  /\ UNCHANGED <<now, notOrchMap>>

\* the strategy of a running orchestration returns
OMComplete ==
  \E i \in DOMAIN adm.running :
    /\ adm' = [adm EXCEPT !.cleanedWith = NoCleanup,
                          !.running = SubSeq(@, 1, i - 1) \o SubSeq(@, i + 1, Len(@)),
                          !.orchestrations = OMCompleted(@, adm.running[i], now)]
    /\ UNCHANGED <<now, notOrchMap>>

\* the strategy of a running orchestration throws, or its name is unknown
OMFail ==
  \E i \in DOMAIN adm.running :
    /\ adm' = [adm EXCEPT !.cleanedWith = NoCleanup,
                          !.running = SubSeq(@, 1, i - 1) \o SubSeq(@, i + 1, Len(@)),
                          !.orchestrations = OMFailed(@, adm.running[i], now)]
    /\ UNCHANGED <<now, notOrchMap>>

OMCleanup ==
  \E maxAge \in MaxAges :
    /\ adm.orchestrations # <<>>
    /\ adm' = [adm EXCEPT !.cleanedWith = maxAge,
                          !.orchestrations = OMCleaned(@, maxAge, now)]
    /\ UNCHANGED <<now, notOrchMap>>

OrchMapNext == OMTick \/ OMOrchestrate \/ OMComplete \/ OMFail \/ OMCleanup

SpecOrchMap == OrchMapInit /\ [][OrchMapNext]_vars

\* C40: right after cleanup(maxAge) the orchestrations map holds no record of
\* an orchestration that finished, completed or failed, more than maxAge earlier.
C40_CleanupRemovesFinished ==
  adm.cleanedWith # NoCleanup =>
    \A id \in DOMAIN adm.orchestrations :
      LET state == adm.orchestrations[id]
      IN  state.status \in {"completed", "failed"} =>
            ~(now - state.finishedAt > adm.cleanedWith)

====
